---- MODULE Spec2Model ----
(***************************************************************************)
(* A model of wlanalyze's Wayland-debug-log core (src/waylanddebug.cpp):   *)
(* the ObjectRegistry (identity table), Parser::parse / parseLine, and the *)
(* Model with its Filter (setFilter, sort, the time deltas).               *)
(*                                                                         *)
(* Representation.                                                         *)
(*   QString        a TLA+ string; characters are its substrings of        *)
(*                  length one (SubSeq(s, i, i)).                          *)
(*   uint instance  its canonical decimal numeral, a string ("0", "5",     *)
(*                  "4278190080"): instance ids span the full 32 bits,     *)
(*                  which TLC's integers do not.  The registry only ever   *)
(*                  compares instances for equality.                       *)
(*   uint generation, quint64 m_time: naturals, kept small by the bounds.  *)
(*   QList          a sequence; source indices are 0-based, so element i   *)
(*                  of the source is s[i + 1] here.                        *)
(*   QHash          a function whose DOMAIN is the set of keys present.    *)
(*   std::unique_ptr  a sequence of at most one element, <<>> for nullptr.  *)
(*   a thrown Exception: the status of the call's result record, named     *)
(*                  after the three registry failures.                     *)
(***************************************************************************)
EXTENDS Integers, Sequences, FiniteSets, TLC

VARIABLES
    reg,        \* SpecRegistry: one ObjectRegistry object
    call,       \* SpecRegistry: the most recent call on reg and its outcome
    prev,       \* SpecRegistry: the op and status of the call before that one
    returned,   \* SpecRegistry: every handle create has returned so far
    pc,         \* SpecParser: where Parser::parse stands
    m_connectionRegistry,   \* SpecParser: Parser::m_connectionRegistry
    lineNumber, \* SpecParser: parse's line counter
    m_messages, \* SpecParser: m_messages of the Model parse is building
    lines,      \* SpecParser: the lines read from the device so far
    result,     \* SpecParser: what parse returned or threw
    m_model,    \* SpecModel: one Model object (MainWindow::m_model)
    lastOp,     \* SpecModel: the most recent call on m_model
    matchFilter,    \* SpecFilter: a Filter
    matchMessage,   \* SpecFilter: a Message * handed to it
    matchResult     \* SpecFilter: the call made on the Filter and its result

registryVars == <<reg, call, prev, returned>>
parserVars == <<pc, m_connectionRegistry, lineNumber, m_messages, lines, result>>
modelVars == <<m_model, lastOp>>
filterVars == <<matchFilter, matchMessage, matchResult>>
vars == <<registryVars, parserVars, modelVars, filterVars>>

(***************************************************************************)
(* Bounds of the model.                                                    *)
(***************************************************************************)
MaxCreated == 3
MaxGraveyard == 2
MaxLines == 3
MaxMessages == 2
MaxRows == 3

(***************************************************************************)
(* ObjectRef and the ObjectRegistry.                                       *)
(***************************************************************************)
ObjectRef(class_, instance, generation) ==
    [m_class |-> class_, m_instance |-> instance, m_generation |-> generation]

\* ObjectRef() = default: empty class, instance 0, generation 0.
NullRef == ObjectRef("", "0", 0)

\* A default-constructed ObjectRegistry.
EmptyRegistry ==
    [m_objects |-> <<>>, m_generations |-> <<>>, m_graveyard |-> <<>>]

\* The outcome of a registry call: the returned handle and the registry after
\* the call, or the failure thrown and the registry as the throw left it.
Return(o, r) == [status |-> "ok", ret |-> o, reg |-> r]
Throw(what, r) == [status |-> what, ret |-> NullRef, reg |-> r]

\* Index (0-based) of the first live object with this instance, or -1.
findInstance(objects, instance) ==
    IF \E i \in 1..Len(objects) : objects[i].m_instance = instance
    THEN (CHOOSE i \in 1..Len(objects) :
              /\ objects[i].m_instance = instance
              /\ \A j \in 1..(i - 1) : objects[j].m_instance # instance) - 1
    ELSE -1

\* The graveyard loop of resolve: index (0-based) of the last graveyard entry
\* with this instance and class, or -1.
graveyardSearch_oldestFirst(graveyard, class_, instance) ==
    LET hit(i) == /\ graveyard[i].m_instance = instance
                  /\ graveyard[i].m_class = class_
    IN  IF \E i \in 1..Len(graveyard) : hit(i)
        THEN (CHOOSE i \in 1..Len(graveyard) :
                  hit(i) /\ \A j \in 1..(i - 1) : ~hit(j)) - 1
        ELSE -1

graveyardSearch(graveyard, class_, instance) ==
    LET hit(i) == /\ graveyard[i].m_instance = instance
                  /\ graveyard[i].m_class = class_
    IN  IF \E i \in 1..Len(graveyard) : hit(i)
        THEN (CHOOSE i \in 1..Len(graveyard) :
                  hit(i) /\ \A j \in (i + 1)..Len(graveyard) : ~hit(j)) - 1
        ELSE -1

\* The class check of resolve on the object it found.
classMismatch_never(o, class_) == FALSE

classMismatch(o, class_) == class_ # "" /\ o.m_class # class_

\* Whether resolve looks into the graveyard at all (only with a class given).
searchesGraveyard(class_) == class_ # ""

resolve(r, class_, instance) ==
    LET idx == findInstance(r.m_objects, instance)
        g == IF idx < 0 /\ searchesGraveyard(class_)
             THEN graveyardSearch(r.m_graveyard, class_, instance)
             ELSE -1
        found == g >= 0
        o == IF idx >= 0 THEN r.m_objects[idx + 1]
             ELSE IF found THEN r.m_graveyard[g + 1]
             ELSE NullRef
    IN  IF idx < 0 /\ ~found THEN Throw("UnknownInstance", r)
        ELSE IF classMismatch(o, class_) THEN Throw("WrongClass", r)
        ELSE Return(o, r)

\* The generation create assigns, and the generation table after it.
nextGeneration_reset(generations, genKey) == 1

nextGeneration(generations, genKey) ==
    IF genKey \in DOMAIN generations THEN generations[genKey] + 1 ELSE 1

withGeneration(generations, genKey, generation) ==
    [k \in (DOMAIN generations) \cup {genKey} |->
        IF k = genKey THEN generation ELSE generations[k]]

\* The guard of create: the instance is live already.
createRejects_sameClassOnly(r, class_, instance) ==
    LET idx == findInstance(r.m_objects, instance)
    IN  idx >= 0 /\ r.m_objects[idx + 1].m_class = class_

createRejects(r, class_, instance) ==
    findInstance(r.m_objects, instance) >= 0

create(r, class_, instance) ==
    IF createRejects(r, class_, instance) THEN Throw("DuplicateInstance", r)
    ELSE LET genKey == <<class_, instance>>
             generation == nextGeneration(r.m_generations, genKey)
             o == ObjectRef(class_, instance, generation)
         IN  Return(o, [r EXCEPT
                 !.m_generations = withGeneration(@, genKey, generation),
                 !.m_objects = Append(@, o)])

\* QList::takeAt(idx): the list without its element idx (0-based).
takeAt(list, idx) ==
    SubSeq(list, 1, idx) \o SubSeq(list, idx + 2, Len(list))

\* What destroy does with the object it took out of m_objects.
bury_forget(graveyard, o) == graveyard

bury(graveyard, o) == Append(graveyard, o)

destroy(r, instance) ==
    LET idx == findInstance(r.m_objects, instance)
    IN  IF idx < 0 THEN Throw("UnknownInstance", r)
        ELSE LET o == r.m_objects[idx + 1]
             IN  Return(o, [r EXCEPT
                     !.m_objects = takeAt(@, idx),
                     !.m_graveyard = bury(@, o)])

destroyIfExists(r, instance) ==
    LET idx == findInstance(r.m_objects, instance)
    IN  IF idx >= 0
        THEN Return(r.m_objects[idx + 1],
                    [r EXCEPT !.m_objects = takeAt(@, idx)])
        ELSE Return(NullRef, r)

\* The record SpecRegistry keeps of a call on the registry.
NoCall == [op |-> "none", class_ |-> "", instance |-> "0",
           status |-> "ok", ret |-> NullRef]

Called(op, class_, instance, res) ==
    [op |-> op, class_ |-> class_, instance |-> instance,
     status |-> res.status, ret |-> res.ret]

Earlier(c) == <<c.op, c.status>>

(***************************************************************************)
(* QString operations used by the parser.  Positions taken by the source   *)
(* (indexOf, mid) are 0-based; Ch and the Span operators are 1-based.      *)
(***************************************************************************)
Min(a, b) == IF a <= b THEN a ELSE b

\* The character at (1-based) position i, "" outside the string.
Ch(s, i) == IF i >= 1 /\ i <= Len(s) THEN SubSeq(s, i, i) ELSE ""

startsWith(s, p) == Len(s) >= Len(p) /\ SubSeq(s, 1, Len(p)) = p

endsWith(s, p) == Len(s) >= Len(p) /\ SubSeq(s, Len(s) - Len(p) + 1, Len(s)) = p

\* QString::indexOf(c): the 0-based position of the first c, or -1.
indexOf(s, c) ==
    IF \E i \in 1..Len(s) : Ch(s, i) = c
    THEN (CHOOSE i \in 1..Len(s) :
              Ch(s, i) = c /\ \A j \in 1..(i - 1) : Ch(s, j) # c) - 1
    ELSE -1

\* QString::mid(pos, n) for n >= 0, and mid(pos) to the end of the string.
mid(s, pos, n) ==
    IF pos > Len(s) THEN "" ELSE SubSeq(s, pos + 1, Min(Len(s), pos + n))

midToEnd(s, pos) == IF pos > Len(s) THEN "" ELSE SubSeq(s, pos + 1, Len(s))

\* QString::chopped(n), defined for n <= size.
chopped(s, n) == SubSeq(s, 1, Len(s) - n)

\* The 0-based position of the first occurrence of sep in s, or -1.
indexOfString(s, sep) ==
    LET at(i) == SubSeq(s, i, i + Len(sep) - 1) = sep
        places == 1..(Len(s) - Len(sep) + 1)
    IN  IF \E i \in places : at(i)
        THEN (CHOOSE i \in places : at(i) /\ \A j \in 1..(i - 1) : ~at(j)) - 1
        ELSE -1

\* QString::split(sep), empty parts kept: "" splits into one empty string.
RECURSIVE split(_, _)
split(s, sep) ==
    LET p == indexOfString(s, sep)
    IN  IF p < 0 THEN <<s>>
        ELSE <<SubSeq(s, 1, p)>> \o split(midToEnd(s, p + Len(sep)), sep)

Digits == {"0", "1", "2", "3", "4", "5", "6", "7", "8", "9"}

Letters ==
    {"a", "b", "c", "d", "e", "f", "g", "h", "i", "j", "k", "l", "m",
     "n", "o", "p", "q", "r", "s", "t", "u", "v", "w", "x", "y", "z",
     "A", "B", "C", "D", "E", "F", "G", "H", "I", "J", "K", "L", "M",
     "N", "O", "P", "Q", "R", "S", "T", "U", "V", "W", "X", "Y", "Z"}

\* The characters \w matches.
WordChars == Letters \cup Digits \cup {"_"}

DigitValue(c) ==
    CASE c = "0" -> 0 [] c = "1" -> 1 [] c = "2" -> 2 [] c = "3" -> 3
      [] c = "4" -> 4 [] c = "5" -> 5 [] c = "6" -> 6 [] c = "7" -> 7
      [] c = "8" -> 8 [] c = "9" -> 9

\* The string without its leading and trailing blanks (the number conversions
\* ignore them).
trimmed(s) ==
    LET inside == {i \in 1..Len(s) : Ch(s, i) # " "}
    IN  IF inside = {} THEN ""
        ELSE SubSeq(s, CHOOSE i \in inside : \A j \in inside : i <= j,
                       CHOOSE i \in inside : \A j \in inside : j <= i)

isNumeral(s) == Len(s) >= 1 /\ \A i \in 1..Len(s) : Ch(s, i) \in Digits

\* The numeral without its leading zeros ("0" for zero).
canonical(s) ==
    LET nonzero == {i \in 1..Len(s) : Ch(s, i) # "0"}
    IN  IF nonzero = {} THEN "0"
        ELSE SubSeq(s, CHOOSE i \in nonzero : \A j \in nonzero : i <= j, Len(s))

\* a >= b for two canonical numerals.
numeralGE(a, b) ==
    \/ Len(a) > Len(b)
    \/ /\ Len(a) = Len(b)
       /\ \/ a = b
          \/ LET d == CHOOSE i \in 1..Len(a) :
                          /\ Ch(a, i) # Ch(b, i)
                          /\ \A j \in 1..(i - 1) : Ch(a, j) = Ch(b, j)
             IN  DigitValue(Ch(a, d)) > DigitValue(Ch(b, d))

\* std::numeric_limits<uint>::max().
UIntMax == "4294967295"

\* QString::toUInt(): the value of a decimal numeral that fits 32 bits, as its
\* canonical numeral, and 0 for everything else.  (The model's inputs carry no
\* sign.)
toUInt(s) ==
    LET convert(t) ==
            IF isNumeral(t) /\ numeralGE(UIntMax, canonical(t))
            THEN canonical(t) ELSE "0"
    IN  convert(trimmed(s))

RECURSIVE numeralValue(_)
numeralValue(s) ==
    IF Len(s) = 0 THEN 0
    ELSE 10 * numeralValue(SubSeq(s, 1, Len(s) - 1)) + DigitValue(Ch(s, Len(s)))

\* QString::toULongLong(): the value of a decimal numeral, and 0 for everything
\* else.  (The model's numerals are short: none reaches 64 bits.)
toULongLong(s) ==
    LET convert(t) == IF isNumeral(t) THEN numeralValue(t) ELSE 0
    IN  convert(trimmed(s))

(***************************************************************************)
(* The regular expression of parseLine.  Its groups, in order:             *)
(*    1, 2   an optional "<connection> ", connection being [^>]+           *)
(*    3, 4   "[", blanks, msec, ".", usec, "]", one blank or more; msec    *)
(*           and usec are \d+                                              *)
(*    5, 6   an optional "{queue}", queue being [^}]+ ; then blanks        *)
(*    7      an optional "->" (send); then blanks                          *)
(*    8      object, \w+ ; then "#" or "@"                                 *)
(*    9      instance, \d+ ; then "."                                      *)
(*    10     method, \w+ ; then an opening parenthesis                     *)
(*    11     args, any characters; then a closing parenthesis and the end  *)
(* Every repetition is followed by a character outside its class, so the   *)
(* greedy match is the only one and the scan below needs no backtracking.  *)
(***************************************************************************)
\* The first position from i on whose character is not in set (Len + 1 if none).
SpanIn(s, i, set) ==
    CHOOSE j \in i..(Len(s) + 1) :
        /\ \A k \in i..(j - 1) : Ch(s, k) \in set
        /\ Ch(s, j) \notin set

\* The first position from i on whose character is in stop (Len + 1 if none).
SpanNotIn(s, i, stop) ==
    CHOOSE j \in i..(Len(s) + 1) :
        /\ \A k \in i..(j - 1) : Ch(s, k) \notin stop
        /\ (j = Len(s) + 1 \/ Ch(s, j) \in stop)

\* Groups 1 and 2, from the start of the line.
matchConnection(line) ==
    LET c1 == SpanNotIn(line, 2, {">"})
    IN  IF /\ Ch(line, 1) = "<" /\ c1 > 2
           /\ Ch(line, c1) = ">" /\ Ch(line, c1 + 1) = " "
        THEN [pos |-> c1 + 2, connection |-> SubSeq(line, 2, c1 - 1)]
        ELSE [pos |-> 1, connection |-> ""]

\* Groups 3 and 4 and the blanks after them, from position pos.
matchTime(line, pos) ==
    LET p2 == SpanIn(line, pos + 1, {" "})
        p3 == SpanIn(line, p2, Digits)
        p4 == SpanIn(line, p3 + 1, Digits)
        p5 == SpanIn(line, p4 + 1, {" "})
    IN  IF /\ Ch(line, pos) = "[" /\ p3 > p2 /\ Ch(line, p3) = "."
           /\ p4 > p3 + 1 /\ Ch(line, p4) = "]" /\ p5 > p4 + 1
        THEN [ok |-> TRUE, pos |-> p5, msec |-> SubSeq(line, p2, p3 - 1),
              usec |-> SubSeq(line, p3 + 1, p4 - 1)]
        ELSE [ok |-> FALSE, pos |-> pos, msec |-> "", usec |-> ""]

\* Groups 5 and 6 and the blanks after them.
matchQueue(line, pos) ==
    LET q1 == SpanNotIn(line, pos + 1, {"}"})
    IN  IF Ch(line, pos) = "{" /\ q1 > pos + 1 /\ Ch(line, q1) = "}"
        THEN [pos |-> SpanIn(line, q1 + 1, {" "}),
              queue |-> SubSeq(line, pos + 1, q1 - 1)]
        ELSE [pos |-> SpanIn(line, pos, {" "}), queue |-> ""]

\* Group 7 and the blanks after it.
matchSend(line, pos) ==
    IF Ch(line, pos) = "-" /\ Ch(line, pos + 1) = ">"
    THEN [pos |-> SpanIn(line, pos + 2, {" "}), send |-> TRUE]
    ELSE [pos |-> SpanIn(line, pos, {" "}), send |-> FALSE]

\* Groups 8 to 11, to the end of the line.
matchCall(line, pos) ==
    LET n == Len(line)
        p10 == SpanIn(line, pos, WordChars)
        p11 == SpanIn(line, p10 + 1, Digits)
        p12 == SpanIn(line, p11 + 1, WordChars)
    IN  IF /\ p10 > pos /\ Ch(line, p10) \in {"#", "@"}
           /\ p11 > p10 + 1 /\ Ch(line, p11) = "."
           /\ p12 > p11 + 1 /\ Ch(line, p12) = "("
           /\ n > p12 /\ Ch(line, n) = ")"
        THEN [ok |-> TRUE, object |-> SubSeq(line, pos, p10 - 1),
              instance |-> SubSeq(line, p10 + 1, p11 - 1),
              method |-> SubSeq(line, p11 + 1, p12 - 1),
              args |-> SubSeq(line, p12 + 1, n - 1)]
        ELSE [ok |-> FALSE, object |-> "", instance |-> "", method |-> "",
              args |-> ""]

NoMatch ==
    [hasMatch |-> FALSE, connection |-> "", msec |-> "", usec |-> "",
     queue |-> "", send |-> FALSE, object |-> "", instance |-> "",
     method |-> "", args |-> ""]

Captures(connection, time, queue, send, c) ==
    [hasMatch |-> TRUE, connection |-> connection.connection,
     msec |-> time.msec, usec |-> time.usec, queue |-> queue.queue,
     send |-> send.send, object |-> c.object, instance |-> c.instance,
     method |-> c.method, args |-> c.args]

\* The match, stage by stage, each stage starting where the one before ended.
matchAfterSend(line, connection, time, queue, send) ==
    LET c == matchCall(line, send.pos)
    IN  IF c.ok THEN Captures(connection, time, queue, send, c) ELSE NoMatch

matchAfterQueue(line, connection, time, queue) ==
    matchAfterSend(line, connection, time, queue, matchSend(line, queue.pos))

matchAfterTime(line, connection, time) ==
    IF time.ok
    THEN matchAfterQueue(line, connection, time, matchQueue(line, time.pos))
    ELSE NoMatch

matchAfterConnection(line, connection) ==
    matchAfterTime(line, connection, matchTime(line, connection.pos))

re_match(line) == matchAfterConnection(line, matchConnection(line))

\* match.lastCapturedIndex(): the args group, number 11, takes part in every
\* match (it may capture the empty string).
lastCapturedIndex(match) == 11

(***************************************************************************)
(* Parser::parseLine.                                                      *)
(***************************************************************************)
Message(direction, connection, queue, time, object, method, arguments, created, destroyed) ==
    [m_direction |-> direction, m_connection |-> connection, m_queue |-> queue,
     m_time |-> time, m_object |-> object, m_method |-> method,
     m_arguments |-> arguments, m_created |-> created,
     m_destroyed |-> destroyed]

NoMessage == Message("Unknown", "", "", 0, NullRef, "", <<>>, <<>>, <<>>)

\* What parseLine hands back: nullptr, a Message, or the Exception of a
\* registry call; creg is m_connectionRegistry as the call left it.
Skipped_reset(creg) == [kind |-> "null", m |-> NoMessage, e |-> "ok", creg |-> <<>>]
Skipped(creg) == [kind |-> "null", m |-> NoMessage, e |-> "ok", creg |-> creg]
Parsed(m, creg) == [kind |-> "message", m |-> m, e |-> "ok", creg |-> creg]
Thrown(e, creg) == [kind |-> "throw", m |-> NoMessage, e |-> e, creg |-> creg]

\* The guard of the first return: the line cannot be a record.
notACandidate(line) ==
    \/ ~startsWith(line, "<") /\ ~startsWith(line, "[")
    \/ ~endsWith(line, ")")

withRegistry_shared(creg, connection, r) ==
    [c \in (DOMAIN creg) \cup {connection} |-> r]

\* m_connectionRegistry[connection] = r.
withRegistry(creg, connection, r) ==
    [c \in (DOMAIN creg) \cup {connection} |->
        IF c = connection THEN r ELSE creg[c]]

seedConnection_empty(creg, connection) ==
    IF connection \in DOMAIN creg THEN creg
    ELSE withRegistry(creg, connection, EmptyRegistry)

\* A connection seen for the first time gets a registry holding wl_display#1.
seedConnection(creg, connection) ==
    IF connection \in DOMAIN creg THEN creg
    ELSE withRegistry(creg, connection,
                      create(EmptyRegistry, "wl_display", "1").reg)

directionOf_inverted(send) ==
    IF send THEN "FromCompositor" ELSE "ToCompositor"

directionOf(send) == IF send THEN "ToCompositor" ELSE "FromCompositor"

timeOf_seconds(msec, usec) ==
    toULongLong(msec) * 1000000 + toULongLong(usec)

timeOf(msec, usec) == toULongLong(msec) * 1000 + toULongLong(usec)

\* The position of the class/instance separator of a "new id" argument.
newIdSeparator(arg) ==
    LET p == indexOf(arg, "@")
    IN  IF p < 0 THEN indexOf(arg, "#") ELSE p

\* The special case of registry binds.
isRegistryBind_anyCount(object, method, arguments, class_) ==
    /\ object.m_class = "wl_registry"
    /\ method = "bind"
    /\ class_ = "[unknown]"

isRegistryBind(object, method, arguments, class_) ==
    /\ object.m_class = "wl_registry"
    /\ method = "bind"
    /\ Len(arguments) = 4
    /\ class_ = "[unknown]"

\* arguments.at(1).mid(1).chopped(1): the interface name without its quotes.
bindClass(arguments) == chopped(midToEnd(arguments[2], 1), 1)

\* 0xff000000: instance ids from here on are allocated by the server.
ServerSideBase == "4278190080"

\* The class a "new id" argument creates: the one it names, or for a registry
\* bind the interface the bind names.
createdClass(object, method, arguments, named) ==
    IF isRegistryBind(object, method, arguments, named)
    THEN bindClass(arguments) ELSE named

\* The registry with a server-side instance destroyed if it exists.
withoutServerSide_never(r, instance) == r

withoutServerSide(r, instance) ==
    IF numeralGE(instance, ServerSideBase)
    THEN destroyIfExists(r, instance).reg ELSE r

\* One round of the loop over the arguments.  st is the loop's state: the
\* connection registries, m_created so far, and the failure thrown, if any.
newId(st, object, method, arguments, connection, arg) ==
    LET created(c) ==
            [creg |-> withRegistry(st.creg, connection, c.reg),
             created |-> IF c.status = "ok"
                         THEN Append(st.created, c.ret) ELSE st.created,
             status |-> c.status]
        instantiate(class_, instance) ==
            created(create(withoutServerSide(st.creg[connection], instance),
                           class_, instance))
        at(p) ==
            IF p <= 0 THEN st
            ELSE instantiate(
                     createdClass(object, method, arguments, mid(arg, 7, p - 7)),
                     toUInt(midToEnd(arg, p + 1)))
    IN  IF startsWith(arg, "new id ") THEN at(newIdSeparator(arg)) ELSE st

RECURSIVE newIds(_, _, _, _, _, _)
newIds(st, object, method, arguments, connection, k) ==
    IF k > Len(arguments) \/ st.status # "ok" THEN st
    ELSE newIds(newId(st, object, method, arguments, connection, arguments[k]),
                object, method, arguments, connection, k + 1)

\* The id a delete_id record destroys, "0" when it destroys none.
deletedId_never(method, arguments) == "0"

deletedId(method, arguments) ==
    IF method = "delete_id" /\ Len(arguments) = 1
    THEN toUInt(arguments[1]) ELSE "0"

\* The Message of a record, its registry calls done.
messageOf(match, arguments, object, created, destroyed) ==
    Message(directionOf(match.send), match.connection, match.queue,
            timeOf(match.msec, match.usec), object, match.method, arguments,
            created, destroyed)

\* parseLine from the match on, each step taking what the steps before it
\* produced: the registries creg, the resolved object, the state st the loop
\* over the arguments ended in, the id a delete_id names.
parseDestroy(match, arguments, object, st, gone) ==
    IF gone.status # "ok" THEN Thrown(gone.status, st.creg)
    ELSE Parsed(messageOf(match, arguments, object, st.created, <<gone.ret>>),
                withRegistry(st.creg, match.connection, gone.reg))

parseDeleteId(match, arguments, object, st, id) ==
    IF id = "0"
    THEN Parsed(messageOf(match, arguments, object, st.created, <<>>), st.creg)
    ELSE parseDestroy(match, arguments, object, st,
                      destroy(st.creg[match.connection], id))

parseCreated(match, arguments, object, st) ==
    IF st.status # "ok" THEN Thrown(st.status, st.creg)
    ELSE parseDeleteId(match, arguments, object, st,
                       deletedId(match.method, arguments))

parseArguments(creg, match, arguments, object) ==
    IF object.status # "ok" THEN Thrown(object.status, creg)
    ELSE parseCreated(match, arguments, object.ret,
                      newIds([creg |-> creg, created |-> <<>>, status |-> "ok"],
                             object.ret, match.method, arguments,
                             match.connection, 1))

parseObject(creg, match) ==
    parseArguments(creg, match, split(match.args, ", "),
                   resolve(creg[match.connection], match.object,
                           toUInt(match.instance)))

parseMatch(creg, match) ==
    IF ~match.hasMatch THEN Skipped(creg)
    ELSE IF lastCapturedIndex(match) # 11 THEN Skipped(creg)
    ELSE parseObject(seedConnection(creg, match.connection), match)

parseLine(creg, line) ==
    IF notACandidate(line) THEN Skipped(creg)
    ELSE parseMatch(creg, re_match(line))

(***************************************************************************)
(* Model::init and what it calls.  A Message * is the message's position   *)
(* (1-based) in m_messages.                                                *)
(***************************************************************************)
Abs(x) == IF x < 0 THEN -x ELSE x

\* The sequence with x put in before the first element that is larger.
RECURSIVE insertSorted(_, _)
insertSorted(sorted, x) ==
    IF sorted = <<>> THEN <<x>>
    ELSE IF x <= Head(sorted) THEN <<x>> \o sorted
    ELSE <<Head(sorted)>> \o insertSorted(Tail(sorted), x)

\* The absolute values of the deltas in ascending order.
RECURSIVE sortedAbs(_)
sortedAbs(deltas) ==
    IF deltas = <<>> THEN <<>>
    ELSE insertSorted(sortedAbs(Tail(deltas)), Abs(Head(deltas)))

\* The deltas the loop takes the statistics of: those of all rows, row 0
\* included (the loop starts at i = 0 with last the time of row 0).
statisticsOver_gaps(deltas) == IF Len(deltas) > 1 THEN Tail(deltas) ELSE deltas

statisticsOver(deltas) == deltas

\* tdcopy.size() / 2, the place the median is read at.
medianRank_lower(size) == (size - 1) \div 2

medianRank(size) == size \div 2

\* m_filteredTimeDeltas and the three statistics for a list of visible rows.
recalculateTimeDelta_unsigned(messages, filtered) ==
    LET time(i) == messages[filtered[i]].m_time
        deltas == [i \in 1..Len(filtered) |->
                      IF i = 1 THEN 0 ELSE Abs(time(i) - time(i - 1))]
        abs == sortedAbs(statisticsOver(deltas))
    IN  IF filtered = <<>>
        THEN [m_filteredTimeDeltas |-> <<>>, m_smallestTimeDelta |-> 0,
              m_medianTimeDelta |-> 0, m_biggestTimeDelta |-> 0]
        ELSE [m_filteredTimeDeltas |-> deltas,
              m_smallestTimeDelta |-> abs[1],
              m_medianTimeDelta |-> abs[medianRank(Len(abs)) + 1],
              m_biggestTimeDelta |-> abs[Len(abs)]]

recalculateTimeDelta(messages, filtered) ==
    LET time(i) == messages[filtered[i]].m_time
        deltas == [i \in 1..Len(filtered) |->
                      IF i = 1 THEN 0 ELSE time(i) - time(i - 1)]
        abs == sortedAbs(statisticsOver(deltas))
    IN  IF filtered = <<>>
        THEN [m_filteredTimeDeltas |-> <<>>, m_smallestTimeDelta |-> 0,
              m_medianTimeDelta |-> 0, m_biggestTimeDelta |-> 0]
        ELSE [m_filteredTimeDeltas |-> deltas,
              m_smallestTimeDelta |-> abs[1],
              m_medianTimeDelta |-> abs[medianRank(Len(abs)) + 1],
              m_biggestTimeDelta |-> abs[Len(abs)]]

\* m_filteredIndex: the row (0-based) of every visible message.
rebuildFilteredIndex(filtered) ==
    [m \in {filtered[i] : i \in 1..Len(filtered)} |->
        (CHOOSE i \in 1..Len(filtered) :
             filtered[i] = m /\ \A j \in (i + 1)..Len(filtered) : filtered[j] # m)
        - 1]

\* The Model as init leaves it: nothing sorted, nothing filtered.
init(messages) ==
    LET all == [i \in 1..Len(messages) |-> i]
        td == recalculateTimeDelta(messages, all)
    IN  [m_messages |-> messages, m_sorted |-> all, m_filtered |-> all,
         m_filteredIndex |-> rebuildFilteredIndex(all),
         m_filteredTimeDeltas |-> td.m_filteredTimeDeltas,
         m_smallestTimeDelta |-> td.m_smallestTimeDelta,
         m_medianTimeDelta |-> td.m_medianTimeDelta,
         m_biggestTimeDelta |-> td.m_biggestTimeDelta,
         m_filter |-> <<>>]

(***************************************************************************)
(* Parser::parse, one loop round per step.                                 *)
(***************************************************************************)
NoModel == init(<<>>)

\* The most recent call on a Model: init, setFilter, sort with its column and
\* order, or a sort that did not return ("aborted").  again: the call is a
\* setFilter with a Filter equal to the one the call before it, also a
\* setFilter, had set.
Op(name, column, order, again) ==
    [name |-> name, column |-> column, order |-> order, again |-> again]

NoOp == Op("init", -1, "AscendingOrder", FALSE)

\* class Filter.
Filter(directionMatch, timeMin, timeMax, connectionMatch, queueMatch, classMatch, instanceMatch, methodMatch, argumentMatch, destroyClassMatch, createClassMatch) ==
    [m_directionMatch |-> directionMatch, m_timeMin |-> timeMin,
     m_timeMax |-> timeMax, m_connectionMatch |-> connectionMatch,
     m_queueMatch |-> queueMatch, m_classMatch |-> classMatch,
     m_instanceMatch |-> instanceMatch, m_methodMatch |-> methodMatch,
     m_argumentMatch |-> argumentMatch,
     m_destroyClassMatch |-> destroyClassMatch,
     m_createClassMatch |-> createClassMatch]

\* A Filter as std::make_unique<Filter>() makes it.
NoFilter == Filter("Any", 0, 0, <<>>, <<>>, <<>>, <<>>, <<>>, <<>>, <<>>, <<>>)

NoResult == [kind |-> "none", line |-> 0, cause |-> "ok", model |-> NoModel]

\* return model.release()
Returned(model) ==
    [kind |-> "model", line |-> 0, cause |-> "ok", model |-> model]

\* ++lineNumber, before the line is parsed.
nextLineNumber_zeroBased(n) == n

nextLineNumber(n) == n + 1

\* The catch block: the Exception leaves parse with the number of the line
\* being read; the unique_ptr deletes the Model built so far.
rethrow(n, e, messages) ==
    [kind |-> "exception", line |-> n, cause |-> e, model |-> NoModel]

(***************************************************************************)
(* The input: lines of a Wayland debug log.  A stamped line is written     *)
(* from its parts, the two numbers of its time stamp among them; a raw     *)
(* line is given as text.                                                  *)
(***************************************************************************)
DigitChar(d) ==
    CASE d = 0 -> "0" [] d = 1 -> "1" [] d = 2 -> "2" [] d = 3 -> "3"
      [] d = 4 -> "4" [] d = 5 -> "5" [] d = 6 -> "6" [] d = 7 -> "7"
      [] d = 8 -> "8" [] d = 9 -> "9"

\* The decimal numeral of n.
RECURSIVE Dec(_)
Dec(n) == IF n < 10 THEN DigitChar(n) ELSE Dec(n \div 10) \o DigitChar(n % 10)

RECURSIVE Repeat(_, _)
Repeat(c, n) == IF n <= 0 THEN "" ELSE c \o Repeat(c, n - 1)

\* The numeral of n, padded on the left with c to w characters.
Padded(n, w, c) == Repeat(c, w - Len(Dec(n))) \o Dec(n)

\* A line "<head>[S.U]<rest>", S blank-padded to ws and U zero-padded to wu.
Stamped(head, S, ws, U, wu, rest) ==
    [text |-> head \o "[" \o Padded(S, ws, " ") \o "." \o Padded(U, wu, "0")
                   \o "]" \o rest,
     stamped |-> TRUE, S |-> S, U |-> U]

Raw(text) == [text |-> text, stamped |-> FALSE, S |-> 0, U |-> 0]

SyncLine ==
    Stamped("", 1, 1, 500000, 6, " wl_display@1.sync(new id wl_callback@5)")

Lines ==
    { SyncLine,
      Stamped("", 12, 7, 34, 3,
              "  -> wl_display@1.get_registry(new id wl_registry@2)"),
      Stamped("", 12, 7, 310, 3, " wl_display@1.delete_id(5)"),
      Stamped("", 13, 7, 2, 3, " wl_callback@5.done(7, 0)"),
      Stamped("", 13, 7, 2, 3, "  -> wl_surface@5.commit()"),
      Stamped("<A> ", 0, 1, 999, 3,
              " {q1} -> wl_display#1.sync(new id wl_callback#5)"),
      Stamped("", 14, 7, 120, 3,
              "  -> wl_display@1.create_surface(new id wl_surface@3)"),
      Stamped("", 14, 7, 500, 3, " wl_display@1.delete_id(3)"),
      Stamped("", 14, 7, 501, 3, " wl_display@1.delete_id(0)"),
      Stamped("", 14, 7, 502, 3, " wl_display@1.delete_id(3, 5)"),
      Stamped("", 15, 7, 1, 3,
              "  -> wl_registry@2.bind(1, \"wl_shm\", 1, new id [unknown]@7)"),
      Stamped("", 15, 7, 2, 3,
              "  -> wl_registry@2.bind(1, \"wl_shm\", new id [unknown]@7)"),
      Stamped("", 15, 7, 3, 3,
              "  -> wl_registry@2.bind(1, \"wl_shm\", 1, new id wl_shm_pool@7)"),
      Stamped("", 15, 7, 4, 3,
              "  -> wl_display@1.bind(1, \"wl_shm\", 1, new id [unknown]@7)"),
      Stamped("", 15, 7, 5, 3,
              "  -> wl_registry@2.attach(1, \"wl_shm\", 1, new id [unknown]@7)"),
      Stamped("", 16, 7, 0, 3,
              " wl_display@1.sync(new id wl_callback@4278190080)"),
      Stamped("", 16, 7, 1, 3,
              " wl_display@1.sync(new id wl_callback@4278190079)"),
      Stamped("<A> ", 17, 1, 1, 3,
              " -> wl_display@1.create_surface(new id wl_surface@3)"),
      Stamped("<A> ", 17, 1, 2, 3, " wl_display@1.delete_id(3)"),
      Stamped("", 18, 7, 1, 3, " wl_display@1.sync(new id wl_callback@1)"),
      Stamped("", 18, 7, 2, 3, " wl_display@1.delete_id(1)"),
      Raw(""),
      Raw("[  14.000] wl_display@1.error(wl_display@1, 0"),
      Raw("[now] wl_display@1.sync()") }

(***************************************************************************)
(* SpecParser: Parser::parse reading any log of at most MaxLines lines.    *)
(***************************************************************************)
InitParser ==
    /\ pc = "open"
    /\ m_connectionRegistry = <<>>
    /\ lineNumber = 0
    /\ m_messages = <<>>
    /\ lines = <<>>
    /\ result = NoResult
    /\ reg = EmptyRegistry
    /\ call = NoCall
    /\ prev = Earlier(NoCall)
    /\ returned = {}
    /\ m_model = NoModel
    /\ lastOp = NoOp
    /\ matchFilter = NoFilter
    /\ matchMessage = <<>>
    /\ matchResult = <<>>

\* The device is there and readable: the Model is made and reading begins.
OpenDevice ==
    /\ pc = "open"
    /\ pc' = "reading"
    /\ UNCHANGED <<m_connectionRegistry, lineNumber, m_messages, lines, result>>
    /\ UNCHANGED registryVars
    /\ UNCHANGED modelVars
    /\ UNCHANGED filterVars

\* No device, or one that cannot be read: parse throws before any line.
NoDevice ==
    /\ pc = "open"
    /\ pc' = "failed"
    /\ result' = rethrow(lineNumber, "NotReadable", m_messages)
    /\ UNCHANGED <<m_connectionRegistry, lineNumber, m_messages, lines>>
    /\ UNCHANGED registryVars
    /\ UNCHANGED modelVars
    /\ UNCHANGED filterVars

\* One round of the loop: a line is read, counted and parsed.
ReadLine ==
    /\ pc = "reading"
    /\ lineNumber < MaxLines
    /\ UNCHANGED registryVars
    /\ UNCHANGED modelVars
    /\ UNCHANGED filterVars
    /\ \E l \in Lines :
        \E parsed \in {parseLine(m_connectionRegistry, l.text)} :
            /\ lines' = Append(lines, l)
            /\ lineNumber' = nextLineNumber(lineNumber)
            /\ m_connectionRegistry' = parsed.creg
            /\ IF parsed.kind = "throw"
               THEN /\ pc' = "failed"
                    /\ result' = rethrow(nextLineNumber(lineNumber), parsed.e,
                                         m_messages)
                    /\ m_messages' = <<>>
               ELSE /\ pc' = "reading"
                    /\ result' = result
                    /\ m_messages' = IF parsed.kind = "message"
                                     THEN Append(m_messages, parsed.m)
                                     ELSE m_messages

\* readLineInto finds no further line: the Model is initialised and returned.
EndOfLog ==
    /\ pc = "reading"
    /\ pc' = "done"
    /\ result' = Returned(init(m_messages))
    /\ UNCHANGED <<m_connectionRegistry, lineNumber, m_messages, lines>>
    /\ UNCHANGED registryVars
    /\ UNCHANGED modelVars
    /\ UNCHANGED filterVars

NextParser == OpenDevice \/ NoDevice \/ ReadLine \/ EndOfLog

(***************************************************************************)
(* SpecRegistry: one ObjectRegistry driven by every sequence of calls.     *)
(***************************************************************************)
Classes == {"", "wl_surface", "wl_buffer"}
Instances == {"3", "7"}

InitRegistry ==
    /\ reg = EmptyRegistry
    /\ call = NoCall
    /\ prev = Earlier(NoCall)
    /\ returned = {}
    /\ m_model = NoModel
    /\ lastOp = NoOp
    /\ matchFilter = NoFilter
    /\ matchMessage = <<>>
    /\ matchResult = <<>>
    /\ pc = "open"
    /\ m_connectionRegistry = <<>>
    /\ lineNumber = 0
    /\ m_messages = <<>>
    /\ lines = <<>>
    /\ result = NoResult

Create ==
    \E class_ \in Classes, instance \in Instances :
        LET res == create(reg, class_, instance)
        IN  /\ res.status = "ok" => Cardinality(returned) < MaxCreated
            /\ reg' = res.reg
            /\ call' = Called("create", class_, instance, res)
            /\ prev' = Earlier(call)
            /\ UNCHANGED parserVars
            /\ UNCHANGED modelVars
            /\ UNCHANGED filterVars
            /\ returned' = IF res.status = "ok" THEN returned \cup {res.ret}
                           ELSE returned

Destroy ==
    \E instance \in Instances :
        LET res == destroy(reg, instance)
        IN  /\ res.status = "ok" => Len(reg.m_graveyard) < MaxGraveyard
            /\ reg' = res.reg
            /\ call' = Called("destroy", "", instance, res)
            /\ prev' = Earlier(call)
            /\ UNCHANGED parserVars
            /\ UNCHANGED modelVars
            /\ UNCHANGED filterVars
            /\ UNCHANGED returned

DestroyIfExists ==
    \E instance \in Instances :
        LET res == destroyIfExists(reg, instance)
        IN  /\ reg' = res.reg
            /\ call' = Called("destroyIfExists", "", instance, res)
            /\ prev' = Earlier(call)
            /\ UNCHANGED parserVars
            /\ UNCHANGED modelVars
            /\ UNCHANGED filterVars
            /\ UNCHANGED returned

Resolve ==
    \E class_ \in Classes, instance \in Instances :
        LET res == resolve(reg, class_, instance)
        IN  /\ reg' = res.reg
            /\ call' = Called("resolve", class_, instance, res)
            /\ prev' = Earlier(call)
            /\ UNCHANGED parserVars
            /\ UNCHANGED modelVars
            /\ UNCHANGED filterVars
            /\ UNCHANGED returned

NextRegistry == Create \/ Destroy \/ DestroyIfExists \/ Resolve

\* The registry alone: parse never starts.
SpecRegistry == InitRegistry /\ [][NextRegistry]_vars

\* The parser alone: nothing calls the registry of SpecRegistry.
SpecParser == InitParser /\ [][NextParser]_vars

(***************************************************************************)
(* Filter.  A Filter made by std::make_unique<Filter>() is value-           *)
(* initialised: m_timeMin and m_timeMax, which have no initialiser of      *)
(* their own, are 0.                                                       *)
(***************************************************************************)
\* QList::contains.
contains(list, x) == \E i \in 1..Len(list) : list[i] = x

\* The direction test: only the two real directions constrain.
directionMismatch(f, m) ==
    /\ f.m_directionMatch \in {"FromCompositor", "ToCompositor"}
    /\ f.m_directionMatch # m.m_direction

\* The time test: each bound applies when it is not 0.
timeOutOfRange_exclusive(f, m) ==
    \/ f.m_timeMin # 0 /\ m.m_time <= f.m_timeMin
    \/ f.m_timeMax # 0 /\ m.m_time >= f.m_timeMax

timeOutOfRange(f, m) ==
    /\ f.m_timeMin # 0 \/ f.m_timeMax # 0
    /\ \/ f.m_timeMin # 0 /\ m.m_time < f.m_timeMin
       \/ f.m_timeMax # 0 /\ m.m_time > f.m_timeMax

\* The test of a list of accepted values against one value of the message.
valueMismatch(accepted, value) ==
    accepted # <<>> /\ ~contains(accepted, value)

\* The loop over m_arguments: found is set by an argument that the list of
\* accepted arguments contains.
argumentFound(accepted, arguments) ==
    \E i \in 1..Len(arguments) : contains(accepted, arguments[i])

\* The loops over m_created and m_destroyed: found is set by a handle whose
\* class the list of accepted classes contains.
classFound(accepted, handles) ==
    \E i \in 1..Len(handles) : contains(accepted, handles[i].m_class)

Filter_match(f, m) ==
    /\ ~directionMismatch(f, m)
    /\ ~timeOutOfRange(f, m)
    /\ ~valueMismatch(f.m_connectionMatch, m.m_connection)
    /\ ~valueMismatch(f.m_queueMatch, m.m_queue)
    /\ ~valueMismatch(f.m_classMatch, m.m_object.m_class)
    /\ ~valueMismatch(f.m_instanceMatch, m.m_object.m_instance)
    /\ ~valueMismatch(f.m_methodMatch, m.m_method)
    /\ f.m_argumentMatch # <<>> =>
           argumentFound(f.m_argumentMatch, m.m_arguments)
    /\ f.m_createClassMatch # <<>> =>
           classFound(f.m_createClassMatch, m.m_created)
    /\ f.m_destroyClassMatch # <<>> =>
           classFound(f.m_destroyClassMatch, m.m_destroyed)

\* match(m) for a Message * that may be nullptr.
Filter_matchPointer(f, mp) == IF mp = <<>> THEN FALSE ELSE Filter_match(f, mp[1])

Filter_isEmpty(f) ==
    /\ f.m_directionMatch = "Any"
    /\ f.m_timeMin = 0
    /\ f.m_timeMax = 0
    /\ f.m_connectionMatch = <<>>
    /\ f.m_queueMatch = <<>>
    /\ f.m_classMatch = <<>>
    /\ f.m_instanceMatch = <<>>
    /\ f.m_methodMatch = <<>>
    /\ f.m_argumentMatch = <<>>
    /\ f.m_createClassMatch = <<>>
    /\ f.m_destroyClassMatch = <<>>

(***************************************************************************)
(* The comparator of Model::sort.  QString::compare orders by code unit;   *)
(* the characters of the model are ASCII.                                  *)
(***************************************************************************)
\* The characters of code 32 to 95, and those of code 97 to 126.
AsciiLow ==
    " !\"#$%&'()*+,-./0123456789:;<=>?@ABCDEFGHIJKLMNOPQRSTUVWXYZ[\\]^_"

AsciiHigh == "abcdefghijklmnopqrstuvwxyz{|}~"

\* The code unit of a character.
CodeOf(c) ==
    IF \E i \in 1..Len(AsciiLow) : Ch(AsciiLow, i) = c
    THEN 31 + (CHOOSE i \in 1..Len(AsciiLow) : Ch(AsciiLow, i) = c)
    ELSE 96 + (CHOOSE i \in 1..Len(AsciiHigh) : Ch(AsciiHigh, i) = c)

\* The first position where two sequences of equal length differ, 0 if none.
firstDifference(a, b, n) ==
    IF \A i \in 1..n : a[i] = b[i] THEN 0
    ELSE CHOOSE i \in 1..n :
             a[i] # b[i] /\ \A j \in 1..(i - 1) : a[j] = b[j]

\* QString::compare: negative, 0 or positive.
compareAt(a, b, d) ==
    IF d = 0 THEN Len(a) - Len(b)
    ELSE CodeOf(Ch(a, d)) - CodeOf(Ch(b, d))

compare(a, b) ==
    compareAt(a, b, firstDifference([i \in 1..Len(a) |-> Ch(a, i)],
                                    [i \in 1..Len(b) |-> Ch(b, i)],
                                    Min(Len(a), Len(b))))

\* a < b for two uint given as canonical numerals.
uintLess(a, b) == ~numeralGE(a, b)

\* ObjectRef::operator<=>: by class, then instance, then generation.
objectLess(o1, o2) ==
    \/ compare(o1.m_class, o2.m_class) < 0
    \/ /\ o1.m_class = o2.m_class
       /\ \/ uintLess(o1.m_instance, o2.m_instance)
          \/ /\ o1.m_instance = o2.m_instance
             /\ o1.m_generation < o2.m_generation

\* QStringList < QStringList: std::lexicographical_compare.
listLessAt(l1, l2, d) ==
    IF d = 0 THEN Len(l1) < Len(l2) ELSE compare(l1[d], l2[d]) < 0

listLess(l1, l2) ==
    listLessAt(l1, l2, firstDifference(l1, l2, Min(Len(l1), Len(l2))))

\* The enumerators of Direction.
DirectionValue(d) ==
    CASE d = "Any" -> 0 [] d = "FromCompositor" -> 1
      [] d = "ToCompositor" -> 2 [] d = "Unknown" -> 3

\* The enumerators of Model::Column.
Time == 0
Connection == 1
Queue == 2
Direction == 3
Object == 4
Method == 5
Arguments == 6
TimeDelta == 7
Count == 8

\* m_filteredTimeDeltas.at(m_filteredIndex.value(m)): the delta of the row of
\* message m, and that of row 0 for a message that has no row.  With no row
\* at all the read is out of range; where it returns, it returns whatever
\* lies at the one place it reads, the same for every message.
timeDeltaOf_traceOrder(md, m) ==
    IF m = 1 THEN 0
    ELSE md.m_messages[m].m_time - md.m_messages[m - 1].m_time

timeDeltaOf(md, m) ==
    IF md.m_filteredTimeDeltas = <<>> THEN 0
    ELSE IF m \in DOMAIN md.m_filteredIndex
         THEN md.m_filteredTimeDeltas[md.m_filteredIndex[m] + 1]
         ELSE md.m_filteredTimeDeltas[1]

\* The switch of the comparator.
lessByColumn(md, column, m1, m2) ==
    CASE column = Time ->
             md.m_messages[m1].m_time < md.m_messages[m2].m_time
      [] column = Connection ->
             compare(md.m_messages[m1].m_connection,
                     md.m_messages[m2].m_connection) < 0
      [] column = Queue ->
             compare(md.m_messages[m1].m_queue, md.m_messages[m2].m_queue) < 0
      [] column = Direction ->
             DirectionValue(md.m_messages[m1].m_direction)
                 < DirectionValue(md.m_messages[m2].m_direction)
      [] column = Object ->
             objectLess(md.m_messages[m1].m_object, md.m_messages[m2].m_object)
      [] column = Method ->
             compare(md.m_messages[m1].m_method, md.m_messages[m2].m_method) < 0
      [] column = Arguments ->
             listLess(md.m_messages[m1].m_arguments,
                      md.m_messages[m2].m_arguments)
      [] column = TimeDelta -> timeDeltaOf(md, m1) < timeDeltaOf(md, m2)

\* The comparator: for the descending order the two messages are swapped.
lessThan(md, column, order, m1, m2) ==
    IF order = "DescendingOrder" THEN lessByColumn(md, column, m2, m1)
    ELSE lessByColumn(md, column, m1, m2)

(***************************************************************************)
(* Model::setFilter and Model::sort.                                       *)
(***************************************************************************)
\* The Model with these rows: the index and the time deltas are rebuilt.
withDeltas(md, sorted, filtered, filter, td) ==
    [m_messages |-> md.m_messages, m_sorted |-> sorted,
     m_filtered |-> filtered,
     m_filteredIndex |-> rebuildFilteredIndex(filtered),
     m_filteredTimeDeltas |-> td.m_filteredTimeDeltas,
     m_smallestTimeDelta |-> td.m_smallestTimeDelta,
     m_medianTimeDelta |-> td.m_medianTimeDelta,
     m_biggestTimeDelta |-> td.m_biggestTimeDelta,
     m_filter |-> filter]

withRows(md, sorted, filtered, filter) ==
    withDeltas(md, sorted, filtered, filter,
               recalculateTimeDelta(md.m_messages, filtered))

\* The list setFilter filters: all messages, in the order of the last sort.
filterSource_visible(md) == md.m_filtered

filterSource_visibleReversed(md) ==
    [i \in 1..Len(md.m_filtered) |-> md.m_filtered[Len(md.m_filtered) + 1 - i]]

filterSource(md) == md.m_sorted

\* QtConcurrent::blockingFiltered(list, filter->match).
blockingFiltered(md, list, f) ==
    SelectSeq(list, LAMBDA m : Filter_match(f, md.m_messages[m]))

\* setFilter(filter); samePointer: filter is the pointer m_filter holds.
setFilter(md, filter, samePointer) ==
    IF samePointer THEN md
    ELSE IF filter = <<>>
         THEN withRows(md, md.m_sorted, md.m_sorted, filter)
         ELSE withRows(md, md.m_sorted,
                       blockingFiltered(md, filterSource(md), filter[1]),
                       filter)

\* The orders std::sort may leave a list of n messages in: every permutation
\* in which no message is less than one before it.  (std::sort makes no
\* promise about the order of messages of which neither is less.)
Rearrangements(n) == Permutations(1..n)

isSorted(md, column, order, p) ==
    \A i, j \in 1..Len(p) :
        i < j => ~lessThan(md, column, order, p[j], p[i])

sortOutcomes(md, column, order) ==
    IF column >= 0 /\ column < Count
    THEN {p \in Rearrangements(Len(md.m_messages)) :
              isSorted(md, column, order, p)}
    ELSE {[i \in 1..Len(md.m_messages) |-> i]}

\* The rows sort keeps with a filter set: those that had a row before.
keptBySort_all(md, sorted) == sorted

keptBySort_rowOrder(md, sorted) ==
    IF md.m_filter # <<>> THEN md.m_filtered ELSE sorted

keptBySort(md, sorted) ==
    IF md.m_filter # <<>>
    THEN SelectSeq(sorted, LAMBDA m : m \in DOMAIN md.m_filteredIndex)
    ELSE sorted

\* sort from the end of std::sort on, sorted being what it left in m_sorted.
sort(md, sorted) == withRows(md, sorted, keptBySort(md, sorted), md.m_filter)

\* The comparator reads m_filteredTimeDeltas.at(0) of an empty list.
readsOutOfRange(md, column) ==
    /\ column = TimeDelta
    /\ Len(md.m_messages) >= 2
    /\ md.m_filteredTimeDeltas = <<>>

(***************************************************************************)
(* SpecModel: the Model of any trace of at most MaxMessages messages,      *)
(* driven by every sequence of setFilter and sort calls.                   *)
(***************************************************************************)
MessagePool ==
    { Message("FromCompositor", "", "", 10, ObjectRef("wl_display", "1", 1),
              "sync", <<"new id wl_callback@5">>,
              <<ObjectRef("wl_callback", "5", 1)>>, <<>>),
      Message("ToCompositor", "", "", 30, ObjectRef("wl_display", "1", 1),
              "delete_id", <<"5">>, <<>>,
              <<ObjectRef("wl_callback", "5", 1)>>),
      Message("FromCompositor", "A", "q1", 10, ObjectRef("wl_callback", "5", 1),
              "done", <<"7", "0">>, <<>>, <<>>),
      Message("ToCompositor", "A", "", 20, ObjectRef("wl_surface", "3", 2),
              "commit", <<"7 0">>, <<>>, <<>>) }

Traces == UNION {[1..n -> MessagePool] : n \in 0..MaxMessages}

Filters ==
    { NoFilter,
      [NoFilter EXCEPT !.m_directionMatch = "FromCompositor"],
      [NoFilter EXCEPT !.m_classMatch = <<"wl_surface", "wl_display">>],
      [NoFilter EXCEPT !.m_directionMatch = "ToCompositor",
                       !.m_classMatch = <<"wl_display">>,
                       !.m_timeMax = 20] }

\* The pointers setFilter is called with: nullptr or a Filter.
FilterPointers == {<<>>} \cup {<<f>> : f \in Filters}

Columns == (0 - 1)..(Count - 1)

Orders == {"AscendingOrder", "DescendingOrder"}

\* Parser::parse has collected the messages of a trace and calls init.
InitModel ==
    /\ \E trace \in Traces : m_model = init(trace)
    /\ lastOp = NoOp
    /\ reg = EmptyRegistry
    /\ call = NoCall
    /\ prev = Earlier(NoCall)
    /\ returned = {}
    /\ pc = "open"
    /\ m_connectionRegistry = <<>>
    /\ lineNumber = 0
    /\ m_messages = <<>>
    /\ lines = <<>>
    /\ result = NoResult
    /\ matchFilter = NoFilter
    /\ matchMessage = <<>>
    /\ matchResult = <<>>

\* setFilter with nullptr, with a new Filter, or (owned) with the Filter the
\* Model holds already.
SetFilter ==
    /\ lastOp.name # "aborted"
    /\ \E filter \in FilterPointers, owned \in BOOLEAN :
        /\ owned => (filter # <<>> /\ filter = m_model.m_filter)
        /\ m_model' = setFilter(m_model, filter,
                                owned \/ (filter = <<>> /\ m_model.m_filter = <<>>))
        /\ lastOp' = Op("setFilter", 0 - 1, "AscendingOrder",
                        /\ lastOp.name = "setFilter"
                        /\ filter # <<>>
                        /\ filter = m_model.m_filter)
    /\ UNCHANGED registryVars
    /\ UNCHANGED parserVars
    /\ UNCHANGED filterVars

\* sort returns, std::sort having left the messages in one of the orders it
\* may.
Sort ==
    /\ lastOp.name # "aborted"
    /\ \E column \in Columns, order \in Orders :
        \E sorted \in sortOutcomes(m_model, column, order) :
            /\ m_model' = sort(m_model, sorted)
            /\ lastOp' = Op("sort", column, order, FALSE)
    /\ UNCHANGED registryVars
    /\ UNCHANGED parserVars
    /\ UNCHANGED filterVars

\* sort by TimeDelta with no row visible: the read out of range ends the
\* program (the Q_ASSERT of QList::at, or the fault of the read).
SortAborts ==
    /\ lastOp.name # "aborted"
    /\ \E column \in Columns, order \in Orders :
        /\ readsOutOfRange(m_model, column)
        /\ lastOp' = Op("aborted", column, order, FALSE)
    /\ m_model' = m_model
    /\ UNCHANGED registryVars
    /\ UNCHANGED parserVars
    /\ UNCHANGED filterVars

NextModel == SetFilter \/ Sort \/ SortAborts

SpecModel == InitModel /\ [][NextModel]_vars

(***************************************************************************)
(* SpecDeltas: the Model of a trace of at most MaxRows messages that       *)
(* differ in their time only, filtered by time and sorted by Time and by   *)
(* TimeDelta.                                                              *)
(***************************************************************************)
TimedMessage(time) ==
    Message("ToCompositor", "", "", time, ObjectRef("wl_surface", "3", 1),
            "commit", <<>>, <<>>, <<>>)

Times == {10, 20, 40}

TimedTraces ==
    UNION {[1..n -> {TimedMessage(t) : t \in Times}] : n \in 0..MaxRows}

\* nullptr, a Filter that hides the messages of time 40, one that hides all.
TimeFilterPointers ==
    { <<>>,
      <<[NoFilter EXCEPT !.m_timeMax = 20]>>,
      <<[NoFilter EXCEPT !.m_timeMin = 50]>> }

TimeColumns == {Time, TimeDelta}

InitDeltas ==
    /\ \E trace \in TimedTraces : m_model = init(trace)
    /\ lastOp = NoOp
    /\ reg = EmptyRegistry
    /\ call = NoCall
    /\ prev = Earlier(NoCall)
    /\ returned = {}
    /\ pc = "open"
    /\ m_connectionRegistry = <<>>
    /\ lineNumber = 0
    /\ m_messages = <<>>
    /\ lines = <<>>
    /\ result = NoResult
    /\ matchFilter = NoFilter
    /\ matchMessage = <<>>
    /\ matchResult = <<>>

\* setFilter with nullptr or with a new Filter.
SetTimeFilter ==
    /\ lastOp.name # "aborted"
    /\ \E filter \in TimeFilterPointers :
        /\ m_model' = setFilter(m_model, filter,
                                filter = <<>> /\ m_model.m_filter = <<>>)
        /\ lastOp' = Op("setFilter", 0 - 1, "AscendingOrder",
                        /\ lastOp.name = "setFilter"
                        /\ filter # <<>>
                        /\ filter = m_model.m_filter)
    /\ UNCHANGED registryVars
    /\ UNCHANGED parserVars
    /\ UNCHANGED filterVars

\* sort by Time or TimeDelta returns.
SortByTime ==
    /\ lastOp.name # "aborted"
    /\ \E column \in TimeColumns, order \in Orders :
        \E sorted \in sortOutcomes(m_model, column, order) :
            /\ m_model' = sort(m_model, sorted)
            /\ lastOp' = Op("sort", column, order, FALSE)
    /\ UNCHANGED registryVars
    /\ UNCHANGED parserVars
    /\ UNCHANGED filterVars

\* sort by TimeDelta with no row visible ends the program.
SortByTimeAborts ==
    /\ lastOp.name # "aborted"
    /\ \E column \in TimeColumns, order \in Orders :
        /\ readsOutOfRange(m_model, column)
        /\ lastOp' = Op("aborted", column, order, FALSE)
    /\ m_model' = m_model
    /\ UNCHANGED registryVars
    /\ UNCHANGED parserVars
    /\ UNCHANGED filterVars

NextDeltas == SetTimeFilter \/ SortByTime \/ SortByTimeAborts

SpecDeltas == InitDeltas /\ [][NextDeltas]_vars

(***************************************************************************)
(* SpecFilter: Filter::match and Filter::isEmpty called once on any Filter *)
(* whose every member is either left as made or set, and any message.      *)
(***************************************************************************)
FilterSpecs ==
    { Filter(directionMatch, timeMin, timeMax, connectionMatch, queueMatch,
             classMatch, instanceMatch, methodMatch, argumentMatch,
             destroyClassMatch, createClassMatch) :
        directionMatch \in {"Any", "FromCompositor", "ToCompositor", "Unknown"},
        timeMin \in {0, 20},
        timeMax \in {0, 20},
        connectionMatch \in {<<>>, <<"A">>},
        queueMatch \in {<<>>, <<"q1">>},
        classMatch \in {<<>>, <<"wl_surface", "wl_display">>},
        instanceMatch \in {<<>>, <<"5">>},
        methodMatch \in {<<>>, <<"sync", "done">>},
        argumentMatch \in {<<>>, <<"0", "5">>, <<"wl_callback">>},
        destroyClassMatch \in {<<>>, <<"wl_callback">>},
        createClassMatch \in {<<>>, <<"wl_callback", "wl_surface">>} }

MessagePointers == {<<>>} \cup {<<m>> : m \in MessagePool}

InitFilter ==
    /\ matchFilter \in FilterSpecs
    /\ matchMessage \in MessagePointers
    /\ matchResult = <<>>
    /\ m_model = NoModel
    /\ lastOp = NoOp
    /\ reg = EmptyRegistry
    /\ call = NoCall
    /\ prev = Earlier(NoCall)
    /\ returned = {}
    /\ pc = "open"
    /\ m_connectionRegistry = <<>>
    /\ lineNumber = 0
    /\ m_messages = <<>>
    /\ lines = <<>>
    /\ result = NoResult

Match ==
    /\ matchResult = <<>>
    /\ matchResult' = <<"match", Filter_matchPointer(matchFilter, matchMessage)>>
    /\ UNCHANGED <<matchFilter, matchMessage>>
    /\ UNCHANGED registryVars
    /\ UNCHANGED parserVars
    /\ UNCHANGED modelVars

IsEmpty ==
    /\ matchResult = <<>>
    /\ matchResult' = <<"isEmpty", Filter_isEmpty(matchFilter)>>
    /\ UNCHANGED <<matchFilter, matchMessage>>
    /\ UNCHANGED registryVars
    /\ UNCHANGED parserVars
    /\ UNCHANGED modelVars

NextFilter == Match \/ IsEmpty

SpecFilter == InitFilter /\ [][NextFilter]_vars



(***************************************************************************)
(* Claims about the ObjectRegistry, checked under SpecRegistry.            *)
(***************************************************************************)
live(r, instance) == findInstance(r.m_objects, instance) >= 0

liveHandle(r, instance) == r.m_objects[findInstance(r.m_objects, instance) + 1]

samePair(g, h) == g.m_class = h.m_class /\ g.m_instance = h.m_instance

Handles(list) == {list[i] : i \in 1..Len(list)}

\* The positions (1-based) of the graveyard entries of this class and instance.
Buried(r, class_, instance) ==
    {i \in 1..Len(r.m_graveyard) :
        /\ r.m_graveyard[i].m_class = class_
        /\ r.m_graveyard[i].m_instance = instance}

Max(S) == CHOOSE x \in S : \A y \in S : y <= x

\* C1: a successful create(className, instanceId) returns a handle of that class
\* and instance whose generation is 1 when the pair was never created before, and
\* otherwise greater than every generation create returned for the pair earlier.
C1_GenerationIncreases ==
    [][(call'.op = "create" /\ call'.status = "ok") =>
        LET h == call'.ret
            earlier == {g \in returned : samePair(g, h)}
        IN  /\ h.m_class = call'.class_ /\ h.m_instance = call'.instance
            /\ earlier = {} => h.m_generation = 1
            /\ \A g \in earlier : h.m_generation > g.m_generation]_vars

\* A pair is created for the second time, after destroys, and gets generation 2.
C1_Witness ==
    /\ call.op = "create" /\ call.status = "ok"
    /\ call.ret.m_generation = 2
    /\ Len(reg.m_graveyard) >= 1

\* C2: resolve(className, instanceId) on a live instanceId fails with WrongClass
\* when className is non-empty and differs from the live handle's class, and
\* otherwise returns exactly the live handle; the registry is unchanged.
C2_ResolveLive ==
    [][(call'.op = "resolve" /\ live(reg, call'.instance)) =>
        LET h == liveHandle(reg, call'.instance)
        IN  /\ reg' = reg
            /\ IF call'.class_ # "" /\ call'.class_ # h.m_class
               THEN call'.status = "WrongClass"
               ELSE call'.status = "ok" /\ call'.ret = h]_vars

\* resolve failed with WrongClass on a live id although the graveyard holds a
\* handle of the requested class and instance.
C2_Witness ==
    /\ call.op = "resolve" /\ call.status = "WrongClass"
    /\ live(reg, call.instance)
    /\ Buried(reg, call.class_, call.instance) # {}

\* A resolve of the class and instance of the handle that the call before it,
\* a successful destroy, has moved to the graveyard.
ResolvesDestroyed ==
    /\ call.op = "destroy" /\ call.status = "ok"
    /\ call'.op = "resolve"
    /\ call'.class_ = call.ret.m_class
    /\ call'.instance = call.instance

FoundInGraveyard ==
    /\ call'.status = "ok"
    /\ call'.ret = call.ret
    /\ ~live(reg, call.instance)
    /\ reg.m_graveyard[Len(reg.m_graveyard)] = call.ret

\* C3 (as amended): a resolve(h.className, instanceId) that follows a
\* successful destroy(instanceId) of a handle h of non-empty class immediately
\* succeeds, finds the instance not live but in the graveyard, and returns a
\* handle equal to h (class, instance and generation).
C3_DestroyThenResolveNamed ==
    [][(ResolvesDestroyed /\ call.ret.m_class # "") => FoundInGraveyard]_vars

\* C3 as claimed: the same of every destroyed handle h.
C3_DestroyThenResolve ==
    [][ResolvesDestroyed => FoundInGraveyard]_vars

\* A resolve right after a successful destroy returned the destroyed handle.
C3_Witness ==
    /\ prev = <<"destroy", "ok">>
    /\ call.op = "resolve" /\ call.status = "ok"
    /\ call.class_ # ""
    /\ ~live(reg, call.instance)
    /\ call.ret = reg.m_graveyard[Len(reg.m_graveyard)]
    /\ call.ret.m_generation >= 1

\* C4: every instanceId is live for at most one handle, and the generation
\* counter of every (className, instanceId) is at least the generation of every
\* handle of that pair that is live, in the graveyard, or was returned by create.
C4_RegistryInvariant ==
    /\ \A i, j \in 1..Len(reg.m_objects) :
           reg.m_objects[i].m_instance = reg.m_objects[j].m_instance => i = j
    /\ \A h \in Handles(reg.m_objects) \cup Handles(reg.m_graveyard) \cup returned :
           /\ <<h.m_class, h.m_instance>> \in DOMAIN reg.m_generations
           /\ reg.m_generations[<<h.m_class, h.m_instance>>] >= h.m_generation

\* Two ids are live, one of them recreated after its first holder was destroyed.
C4_Witness ==
    /\ Len(reg.m_objects) = 2
    /\ Len(reg.m_graveyard) >= 1
    /\ \E h \in Handles(reg.m_objects) : h.m_generation = 2

\* C5: destroyIfExists(instanceId) on a live id has the effect of
\* destroy(instanceId), the handle leaving the live list and joining the
\* graveyard; on an id that is not live it changes nothing and fails not.
C5_DestroyIfExistsLikeDestroy ==
    [][call'.op = "destroyIfExists" =>
        /\ call'.status = "ok"
        /\ IF live(reg, call'.instance)
           THEN reg' = destroy(reg, call'.instance).reg
           ELSE reg' = reg]_vars

\* C6: resolve(className, instanceId) on an instanceId that is not live returns
\* the most recently destroyed graveyard handle of that class and instance when
\* className is non-empty and there is one, and fails with UnknownInstance
\* otherwise (also for an empty className with the id in the graveyard).
C6_ResolveNotLive ==
    [][(call'.op = "resolve" /\ ~live(reg, call'.instance)) =>
        LET hits == Buried(reg, call'.class_, call'.instance)
        IN  /\ reg' = reg
            /\ IF call'.class_ # "" /\ hits # {}
               THEN /\ call'.status = "ok"
                    /\ call'.ret = reg.m_graveyard[Max(hits)]
               ELSE call'.status = "UnknownInstance"]_vars

\* Two handles of one class and instance lie in the graveyard, and resolve
\* returned the later one.
C6_Witness ==
    /\ call.op = "resolve" /\ call.status = "ok"
    /\ ~live(reg, call.instance)
    /\ Cardinality(Buried(reg, call.class_, call.instance)) = 2
    /\ call.ret.m_generation = 2

\* C7: create fails with DuplicateInstance exactly when the instanceId is live
\* (under any class), destroy fails with UnknownInstance exactly when it is not
\* live, and a failed create or destroy leaves the registry unchanged.
C7_CreateDestroyFailures ==
    [][/\ call'.op = "create" =>
            /\ call'.status =
                   IF live(reg, call'.instance) THEN "DuplicateInstance" ELSE "ok"
            /\ call'.status # "ok" => reg' = reg
       /\ call'.op = "destroy" =>
            /\ call'.status =
                   IF live(reg, call'.instance) THEN "ok" ELSE "UnknownInstance"
            /\ call'.status # "ok" => reg' = reg]_vars

\* A create failed on an id that is live under another class, and the pair it
\* named has no generation counter.
C7_Witness ==
    /\ call.op = "create" /\ call.status = "DuplicateInstance"
    /\ live(reg, call.instance)
    /\ liveHandle(reg, call.instance).m_class # call.class_
    /\ <<call.class_, call.instance>> \notin DOMAIN reg.m_generations

(***************************************************************************)
(* Claims about Parser::parse, checked under SpecParser.                   *)
(***************************************************************************)
NoFailure == [creg |-> <<>>, line |-> 0, cause |-> "ok"]

\* The first k lines of a log parsed in order from empty registries, up to
\* the first line that throws: the registries then, that line's number
\* (1-based; 0 if none threw) and what it threw.
RECURSIVE Replay(_, _)
Replay(log, k) ==
    IF k = 0 THEN NoFailure
    ELSE LET before == Replay(log, k - 1)
             parsed == parseLine(before.creg, log[k].text)
         IN  IF before.line # 0 THEN before
             ELSE [creg |-> parsed.creg,
                   line |-> IF parsed.kind = "throw" THEN k ELSE 0,
                   cause |-> parsed.e]

RegistryFailures == {"UnknownInstance", "DuplicateInstance", "WrongClass"}

\* C8: the first line on which a registry call fails ends the parse: the
\* failure thrown carries that line's 1-based number and the registry error,
\* no Model is returned, and no line after it is read; a parse that is still
\* reading or has returned a Model has met no such line.
C8_AbortAtFirstFailure ==
    /\ [](LET first == Replay(lines, Len(lines))
          IN  /\ pc \in {"reading", "done"} => first.line = 0
              /\ (pc = "failed" /\ lines # <<>>) =>
                    /\ first.line = Len(lines)
                    /\ first.cause \in RegistryFailures
                    /\ result = [kind |-> "exception", line |-> first.line,
                                 cause |-> first.cause, model |-> NoModel])
    /\ [][pc = "failed" => UNCHANGED parserVars]_vars

\* The third line of a log is the first to fail, with WrongClass.
C8_Witness ==
    /\ pc = "failed"
    /\ result.line = 3 /\ result.cause = "WrongClass"
    /\ Len(lines) = 3

\* The lines of the log that are records.
Records == SelectSeq(lines, LAMBDA l : l.stamped)

SyncEvent(time) ==
    Message("FromCompositor", "", "", time, ObjectRef("wl_display", "1", 1),
            "sync", <<"new id wl_callback@5">>,
            <<ObjectRef("wl_callback", "5", 1)>>, <<>>)

IsSyncLog ==
    /\ lines = <<SyncLine>>
    /\ SyncLine.text = "[1.500000] wl_display@1.sync(new id wl_callback@5)"

ReadsLine == Len(lines') = Len(lines) + 1

Last(seq) == seq[Len(seq)]

\* What the expression captures of the line just read (no match for a line
\* that cannot be a record).
ReadMatch ==
    IF notACandidate(Last(lines').text) THEN NoMatch
    ELSE re_match(Last(lines').text)

\* The registry of a connection as the line just read finds it: the one it
\* had before, or that of a connection seen for the first time.
TableBefore(connection) ==
    IF connection \in DOMAIN m_connectionRegistry
    THEN m_connectionRegistry[connection]
    ELSE [m_objects |-> <<ObjectRef("wl_display", "1", 1)>>,
          m_generations |-> [k \in {<<"wl_display", "1">>} |-> 1],
          m_graveyard |-> <<>>]

\* What was matched is a record whose object resolves.
Resolves(match) ==
    /\ match.hasMatch
    /\ resolve(TableBefore(match.connection), match.object,
               toUInt(match.instance)).status = "ok"

\* The line just read is a record whose object resolves.
ReadsRecord == ReadsLine /\ Resolves(ReadMatch)

\* The list without the handle of this instance.
Without(list, instance) ==
    SelectSeq(list, LAMBDA o : o.m_instance # instance)

\* What the step that read a delete_id record did, given the record's
\* arguments and the registry of its connection before and after the step.
DeleteIdEffect(arguments, N, before, after) ==
    IF Len(arguments) = 1 /\ N # "0"
    THEN IF live(before, N)
         THEN /\ pc' = "reading"
              /\ Last(m_messages').m_destroyed = <<liveHandle(before, N)>>
              /\ after.m_objects = Without(before.m_objects, N)
              /\ after.m_graveyard =
                    Append(before.m_graveyard, liveHandle(before, N))
              /\ after.m_generations = before.m_generations
         ELSE /\ pc' = "failed"
              /\ result'.cause = "UnknownInstance"
    ELSE /\ pc' = "reading"
         /\ Last(m_messages').m_destroyed = <<>>
         /\ after.m_graveyard = before.m_graveyard

DeleteIdStep ==
    ReadsLine =>
        \A match \in {ReadMatch} :
            (match.method = "delete_id" /\ Resolves(match)) =>
                \A arguments \in {split(match.args, ", ")} :
                    \A N \in {toUInt(arguments[1])} :
                        \A before \in {TableBefore(match.connection)} :
                            DeleteIdEffect(arguments, N, before,
                                m_connectionRegistry'[match.connection])

\* Message k creates a handle of the class and instance of h.
Creates(k, h) ==
    \E c \in 1..Len(m_messages[k].m_created) :
        samePair(m_messages[k].m_created[c], h)

\* Messages i < j < k of one connection: i creates a handle, the delete_id
\* record j destroys it, and k is the next to create its class and instance.
Recreated(i, j, k, c) ==
    /\ i < j /\ j < k
    /\ m_messages[j].m_connection = m_messages[i].m_connection
    /\ m_messages[k].m_connection = m_messages[i].m_connection
    /\ m_messages[j].m_method = "delete_id"
    /\ m_messages[j].m_destroyed = <<m_messages[i].m_created[c]>>
    /\ Creates(k, m_messages[i].m_created[c])
    /\ \A n \in (i + 1)..(k - 1) :
           m_messages[n].m_connection = m_messages[i].m_connection =>
               ~Creates(n, m_messages[i].m_created[c])

\* C11: a delete_id record with exactly one argument that names an id N other
\* than 0 calls destroy(N) on the registry of its connection and has the handle
\* destroyed as its m_destroyed; with N = 0 or another number of arguments it
\* destroys nothing.  So the handle a later record creates for the class and
\* instance of a handle destroyed this way has the next generation: 2 after a
\* delete_id(3) of wl_surface#3 of generation 1.
C11_DeleteId ==
    /\ [][DeleteIdStep]_vars
    /\ [](\A i, j, k \in 1..Len(m_messages) :
            \A c \in 1..Len(m_messages[i].m_created) :
                Recreated(i, j, k, c) =>
                    \E d \in 1..Len(m_messages[k].m_created) :
                        /\ samePair(m_messages[k].m_created[d],
                                    m_messages[i].m_created[c])
                        /\ m_messages[k].m_created[d].m_generation =
                               m_messages[i].m_created[c].m_generation + 1)

\* wl_surface#3 was created, deleted by delete_id(3) and created again, now
\* with generation 2.
C11_Witness ==
    /\ pc = "done"
    /\ Len(m_messages) = 3
    /\ m_messages[1].m_created = <<ObjectRef("wl_surface", "3", 1)>>
    /\ m_messages[2].m_method = "delete_id"
    /\ m_messages[2].m_arguments = <<"3">>
    /\ m_messages[2].m_destroyed = <<ObjectRef("wl_surface", "3", 1)>>
    /\ m_messages[3].m_created = <<ObjectRef("wl_surface", "3", 2)>>

\* The arguments of a record that create an object: "new id <class>@<id>"
\* (or "#" for "@"), the separator not being the argument's first character.
CreatingArguments(arguments) ==
    SelectSeq(arguments,
              LAMBDA a : startsWith(a, "new id ") /\ newIdSeparator(a) > 0)

\* The class such an argument names: what stands between "new id " and the
\* separator.
NamedClass(arg) == SubSeq(arg, 8, newIdSeparator(arg))

\* The instance such an argument names.
NamedInstance(arg) == toUInt(SubSeq(arg, newIdSeparator(arg) + 2, Len(arg)))

IsQuoted(arg) == Len(arg) >= 2 /\ Ch(arg, 1) = "\"" /\ Ch(arg, Len(arg)) = "\""

Unquoted(arg) == SubSeq(arg, 2, Len(arg) - 1)

\* The "new id" argument a of message m names no class, and m is the bind
\* of a wl_registry with 4 arguments.
UnknownInBind(m, a) ==
    /\ m.m_object.m_class = "wl_registry"
    /\ m.m_method = "bind"
    /\ Len(m.m_arguments) = 4
    /\ NamedClass(a) = "[unknown]"

\* The handles message m records as created, for its creating arguments.
BindEffect(m, creating) ==
    /\ Len(m.m_created) = Len(creating)
    /\ \A d \in 1..Len(creating) :
           IF UnknownInBind(m, creating[d])
           THEN IsQuoted(m.m_arguments[2]) =>
                    m.m_created[d].m_class = Unquoted(m.m_arguments[2])
           ELSE m.m_created[d].m_class = NamedClass(creating[d])

BindStep ==
    (ReadsLine /\ pc' = "reading" /\ Len(m_messages') > Len(m_messages)) =>
        \A m \in {Last(m_messages')} :
            \A creating \in {CreatingArguments(m.m_arguments)} :
                BindEffect(m, creating)

\* C12: the handle a "new id" argument creates has the class the argument
\* names, except in a record of a wl_registry object with method bind and
\* exactly 4 arguments whose "new id" argument names [unknown]: there the class
\* is the second argument without its quotes.
C12_RegistryBind == [][BindStep]_vars

\* The bind of wl_shm as object 7 created wl_shm#7.
C12_Witness ==
    /\ m_messages # <<>>
    /\ Last(m_messages).m_object = ObjectRef("wl_registry", "2", 1)
    /\ Last(m_messages).m_method = "bind"
    /\ Last(m_messages).m_arguments =
           <<"1", "\"wl_shm\"", "1", "new id [unknown]@7">>
    /\ Last(m_messages).m_created = <<ObjectRef("wl_shm", "7", 1)>>

IsServerSide(instance) == numeralGE(instance, ServerSideBase)

\* What the step that read a line did about its creating arguments, given
\* the registry of the line's connection before and after the step.
ServerSideEffect(creating, before, after) ==
    /\ (\A d \in 1..Len(creating) :
            IsServerSide(NamedInstance(creating[d]))) =>
          /\ ~(pc' = "failed" /\ result'.cause = "DuplicateInstance")
          /\ pc' = "reading" =>
                \A d \in 1..Len(creating) :
                    /\ Last(m_messages').m_created[d].m_instance =
                           NamedInstance(creating[d])
                    /\ live(after, NamedInstance(creating[d]))
                    /\ live(before, NamedInstance(creating[d])) =>
                           liveHandle(before, NamedInstance(creating[d]))
                               \notin Handles(after.m_objects)
    /\ (/\ creating # <<>>
        /\ ~IsServerSide(NamedInstance(creating[1]))
        /\ live(before, NamedInstance(creating[1]))) =>
          /\ pc' = "failed"
          /\ result'.cause = "DuplicateInstance"
          /\ result'.line = Len(lines')

ServerSideStep ==
    ReadsLine =>
        \A match \in {ReadMatch} :
            Resolves(match) =>
                \A creating \in {CreatingArguments(split(match.args, ", "))} :
                    \A before \in {TableBefore(match.connection)} :
                        ServerSideEffect(creating, before,
                            m_connectionRegistry'[match.connection])

\* C13: a "new id" argument with an instance from 0xff000000 on has the live
\* holder of that instance, if any, removed before its handle is created, so
\* it never fails with DuplicateInstance; one with a smaller instance that is
\* live ends the parse with DuplicateInstance.
C13_ServerSideIds == [][ServerSideStep]_vars

\* Instance 0xff000000 was created twice without a delete_id between.
C13_Witness ==
    /\ pc = "reading"
    /\ Len(m_messages) = 2
    /\ m_messages[1].m_created = <<ObjectRef("wl_callback", ServerSideBase, 1)>>
    /\ m_messages[2].m_created = <<ObjectRef("wl_callback", ServerSideBase, 2)>>
    /\ m_connectionRegistry[""].m_objects =
           <<ObjectRef("wl_display", "1", 1),
             ObjectRef("wl_callback", ServerSideBase, 2)>>

(***************************************************************************)
(* Claims about Filter::match, checked under SpecFilter.                   *)
(***************************************************************************)
Range(seq) == {seq[i] : i \in 1..Len(seq)}

\* Some member of the set is accepted.
SomeOf(accepted, values) == Range(accepted) \cap values # {}

\* A criterion that is set is satisfied.
Unless(empty, satisfied) == empty \/ satisfied

\* The criteria other than the arguments.  (A direction of Any or Unknown is
\* no criterion.)
SatisfiesOthers(f, m) ==
    /\ Unless(f.m_directionMatch \notin {"FromCompositor", "ToCompositor"},
              m.m_direction = f.m_directionMatch)
    /\ Unless(f.m_timeMin = 0, m.m_time >= f.m_timeMin)
    /\ Unless(f.m_timeMax = 0, m.m_time <= f.m_timeMax)
    /\ Unless(f.m_connectionMatch = <<>>,
              SomeOf(f.m_connectionMatch, {m.m_connection}))
    /\ Unless(f.m_queueMatch = <<>>, SomeOf(f.m_queueMatch, {m.m_queue}))
    /\ Unless(f.m_classMatch = <<>>,
              SomeOf(f.m_classMatch, {m.m_object.m_class}))
    /\ Unless(f.m_instanceMatch = <<>>,
              SomeOf(f.m_instanceMatch, {m.m_object.m_instance}))
    /\ Unless(f.m_methodMatch = <<>>, SomeOf(f.m_methodMatch, {m.m_method}))
    /\ Unless(f.m_createClassMatch = <<>>,
              SomeOf(f.m_createClassMatch,
                     {h.m_class : h \in Range(m.m_created)}))
    /\ Unless(f.m_destroyClassMatch = <<>>,
              SomeOf(f.m_destroyClassMatch,
                     {h.m_class : h \in Range(m.m_destroyed)}))

\* An argument of the message is a member of the set.
ArgumentEquals(f, m) == SomeOf(f.m_argumentMatch, Range(m.m_arguments))

\* An argument of the message has a member of the set as a substring.
ArgumentContains(f, m) ==
    \E a \in Range(m.m_arguments), x \in Range(f.m_argumentMatch) :
        \E i \in 1..(Len(a) - Len(x) + 1) : SubSeq(a, i, i + Len(x) - 1) = x

Matched == matchResult # <<>> /\ matchResult[1] = "match" /\ matchMessage # <<>>

\* C14: a message matches a Filter iff it satisfies every criterion that is
\* set: its direction is the one asked for; its time is not below a timeMin
\* other than 0 and not above a timeMax other than 0, each bound on its own;
\* its connection, queue, class, instance and method are each a member of the
\* set given for it; one of its arguments is a member of the argument set; the
\* class of one of the handles it created, and of one it destroyed, is a member
\* of the set given for those.
C14_AndOfOrs ==
    Matched =>
        matchResult[2] =
            (/\ SatisfiesOthers(matchFilter, matchMessage[1])
             /\ Unless(matchFilter.m_argumentMatch = <<>>,
                       ArgumentEquals(matchFilter, matchMessage[1])))

\* A message of time 20 and class wl_surface matches the Filter of direction
\* ToCompositor, times 20 to 20 and classes wl_surface and wl_display.
C14_Witness ==
    /\ matchResult = <<"match", TRUE>>
    /\ matchMessage # <<>>
    /\ matchMessage[1].m_time = 20
    /\ matchMessage[1].m_object.m_class = "wl_surface"
    /\ matchFilter.m_directionMatch = "ToCompositor"
    /\ matchFilter.m_timeMin = 20 /\ matchFilter.m_timeMax = 20
    /\ matchFilter.m_classMatch = <<"wl_surface", "wl_display">>

\* C15: the argument criterion is by substring: a message satisfies an
\* argument set that is not empty iff one of its arguments contains a member
\* of the set.
C15_ArgumentSubstring ==
    Matched =>
        matchResult[2] =
            (/\ SatisfiesOthers(matchFilter, matchMessage[1])
             /\ Unless(matchFilter.m_argumentMatch = <<>>,
                       ArgumentContains(matchFilter, matchMessage[1])))

(***************************************************************************)
(* Claims about Model::setFilter and Model::sort, checked under SpecModel. *)
(***************************************************************************)
\* Message * m of the Model.
MessageAt(md, m) == md.m_messages[m]

\* The time deltas are those of the rows.
DeltasOfRows(md) ==
    /\ Len(md.m_filteredTimeDeltas) = Len(md.m_filtered)
    /\ \A i \in 1..Len(md.m_filtered) :
           md.m_filteredTimeDeltas[i] =
               IF i = 1 THEN 0
               ELSE MessageAt(md, md.m_filtered[i]).m_time
                        - MessageAt(md, md.m_filtered[i - 1]).m_time

\* C16: after setFilter the rows are all the messages of the trace that match
\* the Filter set, whatever rows there were before, in the order of the last
\* sort; all messages when the Filter is nullptr or empty.
C16_SetFilterReplaces ==
    lastOp.name = "setFilter" =>
        /\ Range(m_model.m_sorted) = 1..Len(m_model.m_messages)
        /\ Len(m_model.m_sorted) = Len(m_model.m_messages)
        /\ m_model.m_filtered =
               SelectSeq(m_model.m_sorted,
                         LAMBDA m : \/ m_model.m_filter = <<>>
                                    \/ Filter_match(m_model.m_filter[1],
                                                    MessageAt(m_model, m)))
        /\ (\/ m_model.m_filter = <<>>
            \/ Filter_isEmpty(m_model.m_filter[1])) =>
               m_model.m_filtered = m_model.m_sorted

\* The Filter of classes wl_surface and wl_display was set on a trace sorted
\* backwards, and shows the one of the two messages that matches it.
C16_Witness ==
    /\ lastOp.name = "setFilter"
    /\ m_model.m_filter # <<>>
    /\ m_model.m_filter[1].m_classMatch = <<"wl_surface", "wl_display">>
    /\ m_model.m_sorted = <<2, 1>>
    /\ m_model.m_filtered = <<1>>
    /\ MessageAt(m_model, 1).m_direction = "ToCompositor"

\* C17: setFilter with a Filter equal to the one that the setFilter before it
\* has set leaves the rows, their order and their time deltas as they are.
C17_FilterIdempotent ==
    [][lastOp'.again =>
          /\ m_model'.m_filtered = m_model.m_filtered
          /\ m_model'.m_filteredTimeDeltas = m_model.m_filteredTimeDeltas
          /\ m_model'.m_filter = m_model.m_filter]_vars

\* The same Filter was set twice in a row; it shows both messages of the
\* trace, in the order of a sort that has reversed them.
C17_Witness ==
    /\ lastOp.name = "setFilter" /\ lastOp.again
    /\ ~Filter_isEmpty(m_model.m_filter[1])
    /\ m_model.m_filtered = <<2, 1>>

\* C18: sort, by any column and in either order, with a Filter set or without,
\* leaves the set of rows and their number as they are.
C18_SortKeepsRows ==
    [][lastOp'.name = "sort" =>
          /\ Range(m_model'.m_filtered) = Range(m_model.m_filtered)
          /\ Len(m_model'.m_filtered) = Len(m_model.m_filtered)]_vars

\* A sort under a Filter that hides one of two messages has reversed the
\* trace and shows the same one message.
C18_Witness ==
    /\ lastOp.name = "sort"
    /\ m_model.m_filter # <<>>
    /\ m_model.m_sorted = <<2, 1>>
    /\ m_model.m_filtered = <<2>>
    /\ ~Filter_match(m_model.m_filter[1], MessageAt(m_model, 1))

\* C19: sort is stable: of two messages neither of which is less than the
\* other under the column and order asked for, the earlier of the trace comes
\* first.
C19_SortStable ==
    [][(lastOp'.name = "sort" /\ lastOp'.column >= 0 /\ lastOp'.column < Count) =>
          \A i, j \in 1..Len(m_model'.m_sorted) :
              (/\ i < j
               /\ ~lessThan(m_model, lastOp'.column, lastOp'.order,
                            m_model'.m_sorted[i], m_model'.m_sorted[j])
               /\ ~lessThan(m_model, lastOp'.column, lastOp'.order,
                            m_model'.m_sorted[j], m_model'.m_sorted[i])) =>
                  m_model'.m_sorted[i] < m_model'.m_sorted[j]]_vars

\* C20: after init and after every setFilter and sort, the time delta of row 0
\* is 0 and that of every other row is the time of its message less the time
\* of the message of the row before it, as a signed number.
C20_DeltasFollowRows == DeltasOfRows(m_model)

\* A sort has put a message of time 30 before one of time 10.
C20_Witness ==
    /\ lastOp.name = "sort"
    /\ Len(m_model.m_filtered) = 2
    /\ MessageAt(m_model, m_model.m_filtered[1]).m_time = 30
    /\ m_model.m_filteredTimeDeltas = <<0, 0 - 20>>

(***************************************************************************)
(* Claims about the time deltas and their statistics, checked under        *)
(* SpecDeltas.                                                             *)
(***************************************************************************)
\* The rows whose delta is, in absolute value, below x, and at most x.
RowsBelow(md, x) ==
    {i \in 1..Len(md.m_filteredTimeDeltas) : Abs(md.m_filteredTimeDeltas[i]) < x}

RowsUpTo(md, x) ==
    {i \in 1..Len(md.m_filteredTimeDeltas) : Abs(md.m_filteredTimeDeltas[i]) <= x}

\* x is the absolute delta that stands at place k (0-based) when the absolute
\* deltas are put in ascending order.
AtRank(md, x, k) ==
    /\ \E i \in 1..Len(md.m_filteredTimeDeltas) :
           Abs(md.m_filteredTimeDeltas[i]) = x
    /\ Cardinality(RowsBelow(md, x)) <= k
    /\ Cardinality(RowsUpTo(md, x)) >= k + 1

StatisticsOfRows(md, n) ==
    IF n = 0
    THEN /\ md.m_smallestTimeDelta = 0
         /\ md.m_medianTimeDelta = 0
         /\ md.m_biggestTimeDelta = 0
    ELSE /\ AtRank(md, md.m_smallestTimeDelta, 0)
         /\ AtRank(md, md.m_biggestTimeDelta, n - 1)
         /\ AtRank(md, md.m_medianTimeDelta, n \div 2)
         /\ md.m_smallestTimeDelta <= md.m_medianTimeDelta
         /\ md.m_medianTimeDelta <= md.m_biggestTimeDelta

\* C21: over the absolute values of the time deltas of the rows,
\* m_smallestTimeDelta is the minimum, m_biggestTimeDelta the maximum and
\* m_medianTimeDelta the one at place size/2 (0-based) in ascending order, so
\* smallest <= median <= biggest; with no row all three are 0.
C21_Statistics ==
    /\ Len(m_model.m_filteredTimeDeltas) = Len(m_model.m_filtered)
    /\ StatisticsOfRows(m_model, Len(m_model.m_filtered))

\* Three rows of times 10, 40 and 20 after a setFilter: the median of 0, 30
\* and 20 is 20.
C21_Witness ==
    /\ lastOp.name = "setFilter"
    /\ m_model.m_filteredTimeDeltas = <<0, 30, 0 - 20>>
    /\ m_model.m_smallestTimeDelta = 0
    /\ m_model.m_medianTimeDelta = 20
    /\ m_model.m_biggestTimeDelta = 30

(***************************************************************************)
(* Further claims about Model::setFilter and Model::sort, checked under    *)
(* SpecModel.                                                              *)
(***************************************************************************)
\* C22: every setFilter and sort returns, whatever came before it and
\* whatever the column; with no row visible, sort reads no time delta out of
\* range and leaves no row visible.
C22_NoFailure ==
    [][/\ lastOp'.name # "aborted"
       /\ lastOp'.name = "sort" =>
              /\ ~readsOutOfRange(m_model, lastOp'.column)
              /\ m_model.m_filtered = <<>> => m_model'.m_filtered = <<>>]_vars

\* seq is a rearrangement of the elements of S, each once.
IsPermutationOf(seq, S) == Len(seq) = Cardinality(S) /\ Range(seq) = S

\* sub has no element twice, and its elements stand in list in the order they
\* stand in sub.
RECURSIVE IsSubsequence(_, _)
IsSubsequence(sub, list) ==
    IF sub = <<>> THEN TRUE
    ELSE IF list = <<>> THEN FALSE
    ELSE IF Head(sub) = Head(list) THEN IsSubsequence(Tail(sub), Tail(list))
    ELSE IsSubsequence(sub, Tail(list))

ViewInvariant(md) ==
    /\ IsPermutationOf(md.m_sorted, 1..Len(md.m_messages))
    /\ IsSubsequence(md.m_filtered, md.m_sorted)
    /\ DOMAIN md.m_filteredIndex = Range(md.m_filtered)
    /\ \A i \in 1..Len(md.m_filtered) :
           md.m_filteredIndex[md.m_filtered[i]] = i - 1
    /\ Len(md.m_filteredTimeDeltas) = Len(md.m_filtered)

\* C23: after init and after any setFilter and sort calls, m_messages is as
\* the parser left it, m_sorted is a permutation of the messages, m_filtered
\* is a subsequence of m_sorted in its order, m_filteredIndex maps exactly
\* the messages of m_filtered to their rows, and there are as many time
\* deltas as rows.
C23_ViewInvariant ==
    /\ []ViewInvariant(m_model)
    /\ [][m_model'.m_messages = m_model.m_messages]_vars

\* A sort under a Filter that shows both messages of the trace has put them
\* in reverse order.
C23_Witness ==
    /\ lastOp.name = "sort"
    /\ m_model.m_filter # <<>>
    /\ ~Filter_isEmpty(m_model.m_filter[1])
    /\ Len(m_model.m_messages) = 2
    /\ m_model.m_sorted = <<2, 1>>
    /\ m_model.m_filtered = <<2, 1>>
    /\ m_model.m_filteredIndex[2] = 0

(***************************************************************************)
(* Claims about the sort by TimeDelta, checked under SpecDeltas.           *)
(***************************************************************************)
\* The delta a message had before the sort: that of its row, and that of row
\* 0 when it had no row.
DeltaBefore(md, m) ==
    IF \E r \in 1..Len(md.m_filtered) : md.m_filtered[r] = m
    THEN md.m_filteredTimeDeltas[CHOOSE r \in 1..Len(md.m_filtered) :
                                     md.m_filtered[r] = m]
    ELSE md.m_filteredTimeDeltas[1]

\* In the order asked for, a delta x must not stand after a delta y.
Misplaced(order, x, y) ==
    IF order = "AscendingOrder" THEN y < x ELSE x < y

\* sorted is in the order of the deltas the messages had in md.
OrderedByDeltaBefore(md, order, sorted) ==
    \A i, j \in 1..Len(sorted) :
        i < j => ~Misplaced(order, DeltaBefore(md, sorted[i]),
                            DeltaBefore(md, sorted[j]))

SortByTimeDeltaStep(before, after, order) ==
    /\ OrderedByDeltaBefore(before, order, after.m_sorted)
    /\ DeltasOfRows(after)

\* C24: sort by TimeDelta puts the messages in the order of the deltas they
\* had in the rows before this sort, a message without a row counting with
\* the delta of row 0, and then computes the deltas anew for the new rows.
C24_SortByOldDeltas ==
    [][(/\ lastOp'.name = "sort"
        /\ lastOp'.column = TimeDelta
        /\ m_model.m_filtered # <<>>) =>
          SortByTimeDeltaStep(m_model, m_model', lastOp'.order)]_vars

\* After an ascending sort by TimeDelta the deltas shown are 0, -10, 30: not
\* ascending.
C24_Witness ==
    /\ lastOp.name = "sort"
    /\ lastOp.column = TimeDelta
    /\ lastOp.order = "AscendingOrder"
    /\ m_model.m_filteredTimeDeltas = <<0, 0 - 10, 30>>

\* C29: whenever there is a row, m_smallestTimeDelta is 0, the delta of row 0
\* being among those the minimum is taken of; it is 0 also where any two
\* rows that follow each other differ in time.
C29_SmallestIsZero ==
    m_model.m_filtered # <<>> =>
        /\ m_model.m_filteredTimeDeltas[1] = 0
        /\ m_model.m_smallestTimeDelta = 0

\* Two rows 30 apart after a sort: the smallest delta is 0, not 30.
C29_Witness ==
    /\ lastOp.name = "sort"
    /\ m_model.m_filteredTimeDeltas = <<0, 0 - 30>>
    /\ m_model.m_smallestTimeDelta = 0
    /\ m_model.m_biggestTimeDelta = 30

(***************************************************************************)
(* The sort by Arguments, checked under SpecModel.                         *)
(***************************************************************************)
\* The arguments as the Arguments column shows them: joined with ", ".
RECURSIVE Joined(_)
Joined(arguments) ==
    IF arguments = <<>> THEN ""
    ELSE IF Len(arguments) = 1 THEN arguments[1]
    ELSE arguments[1] \o ", " \o Joined(Tail(arguments))

\* Message m1 stands before m2 by the comparison of their joined arguments.
JoinedLess(md, order, m1, m2) ==
    IF order = "AscendingOrder"
    THEN compare(Joined(MessageAt(md, m1).m_arguments),
                 Joined(MessageAt(md, m2).m_arguments)) < 0
    ELSE compare(Joined(MessageAt(md, m2).m_arguments),
                 Joined(MessageAt(md, m1).m_arguments)) < 0

\* C27: sort by Arguments compares the arguments of two messages as the
\* strings they give when joined with ", ": the comparator says of every two
\* messages what the comparison of those strings says, and the sorted list is
\* in the order of those strings.
C27_SortByJoinedArguments ==
    [][(lastOp'.name = "sort" /\ lastOp'.column = Arguments) =>
          /\ \A m1, m2 \in 1..Len(m_model.m_messages) :
                 lessThan(m_model, Arguments, lastOp'.order, m1, m2)
                     = JoinedLess(m_model, lastOp'.order, m1, m2)
          /\ \A i, j \in 1..Len(m_model'.m_sorted) :
                 i < j => ~JoinedLess(m_model, lastOp'.order,
                                      m_model'.m_sorted[j],
                                      m_model'.m_sorted[i])]_vars

(***************************************************************************)
(* Further claims about Parser::parse, checked under SpecParser.           *)
(***************************************************************************)
\* The step that read a line that is no record left the messages, the
\* registries and the state of the parse as they were.
NotARecordStep ==
    (ReadsLine /\ ~Last(lines').stamped) =>
        /\ m_messages' = m_messages
        /\ m_connectionRegistry' = m_connectionRegistry
        /\ result' = result
        /\ pc' = pc

\* Message m is the event of record line l.
EventOf(m, l) ==
    /\ m.m_time = l.S * 1000 + l.U
    /\ indexOfString(l.text, "." \o m.m_method \o "(") >= 0

OneEventPerRecord(messages) ==
    /\ Len(messages) = Len(Records)
    /\ \A k \in 1..Len(Records) : EventOf(messages[k], Records[k])

\* C25: a line that is no record (it does not start with [ or <, does not
\* end with a closing parenthesis, or is not of the form of a record) gives no
\* message and no failure and leaves the registry of every connection as it
\* was; the Model returned holds one message for every record line, in the
\* order of the lines.
C25_NotARecord ==
    /\ [][NotARecordStep]_vars
    /\ [](pc = "done" =>
             /\ result.kind = "model"
             /\ OneEventPerRecord(result.model.m_messages))

\* A log of a record, a line that is none, and a record gave two messages.
C25_Witness ==
    /\ pc = "done"
    /\ Len(lines) = 3
    /\ lines[1].stamped /\ ~lines[2].stamped /\ lines[3].stamped
    /\ lines[2].text = "[now] wl_display@1.sync()"
    /\ Len(result.model.m_messages) = 2
    /\ DOMAIN m_connectionRegistry = {""}

\* The connection a line is tagged with: what stands between < and > at its
\* start, and the empty string for a line without a tag.
TagOf(text) ==
    IF startsWith(text, "<") /\ indexOf(text, ">") > 0
    THEN SubSeq(text, 2, indexOf(text, ">"))
    ELSE ""

\* The registries of connection c alone.
Only(creg, c) == [b \in (DOMAIN creg) \cap {c} |-> creg[b]]

\* The step that read a line of connection c: no other connection's registry
\* is made or changed, and that of c is what the line makes of it with no
\* other registry there.
IndependentStep(text, c) ==
    /\ DOMAIN m_connectionRegistry' \subseteq DOMAIN m_connectionRegistry \cup {c}
    /\ \A b \in DOMAIN m_connectionRegistry \ {c} :
           /\ b \in DOMAIN m_connectionRegistry'
           /\ m_connectionRegistry'[b] = m_connectionRegistry[b]
    /\ c \in DOMAIN m_connectionRegistry' =>
           m_connectionRegistry'[c] =
               parseLine(Only(m_connectionRegistry, c), text).creg[c]

\* C26: the registries of different connections are independent: a line of
\* connection A leaves the live handles, the generations and the graveyard of
\* every other connection as they are, so that an instance can be live in two
\* connections at once, with generations of its own in each; the lines without
\* a tag share the registry of the empty connection.
C26_ConnectionsIndependent ==
    [][ReadsLine =>
          \A text \in {Last(lines').text} : IndependentStep(text, TagOf(text))]_vars

\* wl_surface 3 was created in both connections and deleted in A: it is
\* still live in the connection without a tag.
C26_Witness ==
    /\ pc = "reading"
    /\ DOMAIN m_connectionRegistry = {"", "A"}
    /\ live(m_connectionRegistry[""], "3")
    /\ ~live(m_connectionRegistry["A"], "3")
    /\ m_connectionRegistry["A"].m_graveyard = <<ObjectRef("wl_surface", "3", 1)>>

\* What the step that read a record line did, given what the line matched,
\* its creating arguments and the registry of its connection before.
SeedEffect(match, creating, before) ==
    /\ match.connection \in DOMAIN m_connectionRegistry'
    /\ (match.object = "wl_display" /\ toUInt(match.instance) = "1"
            /\ match.connection \notin DOMAIN m_connectionRegistry) =>
          /\ match.method # "delete_id" =>
                 ~(pc' = "failed"
                     /\ result'.cause \in {"UnknownInstance", "WrongClass"})
          /\ pc' = "reading" =>
                 Last(m_messages').m_object = ObjectRef("wl_display", "1", 1)
    /\ (/\ resolve(before, match.object, toUInt(match.instance)).status = "ok"
        /\ creating # <<>>
        /\ NamedInstance(creating[1]) = "1"
        /\ live(before, "1")) =>
          /\ pc' = "failed"
          /\ result'.cause = "DuplicateInstance"

SeedStep ==
    ReadsLine =>
        \A match \in {ReadMatch} :
            match.hasMatch =>
                \A creating \in {CreatingArguments(split(match.args, ", "))} :
                    \A before \in {TableBefore(match.connection)} :
                        SeedEffect(match, creating, before)

\* C28: the first record line of a connection, the empty one included, finds
\* wl_display#1 of generation 1 live in the connection's registry before its
\* object is resolved: wl_display@1 resolves with no line having created it,
\* and a "new id" argument of instance 1, wl_display#1 not having been
\* deleted, ends the parse with DuplicateInstance.
C28_SeededDisplay == [][SeedStep]_vars

\* The first line of a log, wl_display@1.sync(new id wl_callback@1), failed
\* with DuplicateInstance.
C28_Witness ==
    /\ pc = "failed"
    /\ Len(lines) = 1
    /\ indexOfString(lines[1].text, "new id wl_callback@1)") >= 0
    /\ result.cause = "DuplicateInstance"
    /\ result.line = 1

====
